---- MODULE Spec2Model ----
(***************************************************************************)
(* Verification model of the procedural-geometry generators of the         *)
(* portfolio repository:                                                   *)
(*   - the dynamic neutron transport simulation                            *)
(*       (rd_view/assign4/dynamic_neutron_scene_generator.cc),             *)
(*   - the fractal terrain synthesizer (unnamed/part_000),                 *)
(*   - the superquadric surface evaluator (rd_view/assign4/superQuadrics.cc)*)
(*                                                                         *)
(* Number representation.  Floats are fixed-point integers:                *)
(*   time      in tenths of a simulated time unit   (0.5  -> 5),           *)
(*   length    in hundredths                        (10.0 -> 1000),        *)
(*   probability and uniform draws in thousandths   (0.15 -> 150).         *)
(***************************************************************************)
EXTENDS Integers, Sequences, FiniteSets, TLC

VARIABLES
    \* --- dynamic neutron simulation -----------------------------------
    num_neutrons,     \* global tunable, set from --neutrons before construction
    max_lifetime,     \* global tunable (tenths of a time unit)
    fission_probability,  \* global tunable (thousandths)
    max_distance,     \* global tunable (hundredths)
    neutrons,         \* NeutronSimulation::neutrons, the slot pool
    fission_events,   \* NeutronSimulation::fission_events (deque)
    simulation_time,  \* NeutronSimulation::simulation_time
    upd,              \* position of the range-for in NeutronSimulation::update():
                      \* index of the next slot to update, 0 = no update running
    cause,            \* history: why each slot was last deactivated
    last,             \* history: what the last Neutron::update() call did: the
                      \* slot, the branch taken, the group the neutron was in, the
                      \* drawn child count k and the number m of inactive slots
                      \* its spawning loop found
    frame,            \* what generateFrame() wrote for the current simulation
                      \* time: frame number (0: nothing yet), fission markers,
                      \* spheres per group, the LineSet counts and its lines
    \* --- fractal terrain ------------------------------------------------
    terrains,         \* the FractalTerrain objects constructed by the process
    heightCache,      \* the function-local statics of FractalTerrain::getColor
    lastColor,        \* history: the last getColor() call and the range it used
    regens,           \* history: generateTerrain() calls made after construction
    rdfile,           \* the PolySet exportToRD() has written: the object, the
                      \* declared counts, the vertex and the face records
    \* --- superquadric evaluator ----------------------------------------
    n_divisions,      \* REDirect::n_divisions
    sq,               \* the running rd_sqsphere / rd_sqtorus call: its arguments,
                      \* locals, loop position and result
    pipeline,         \* the points the call has passed to poly_pipeline
    \* --- static neutron track generator --------------------------------
    tracks,           \* NeutronTracks::tracks
    scene,            \* progress of the constructor and of generateRDScene():
                      \* tracks generated, tracks written, the Tube lines written
    \* --- browser viewer (js/scenes/fractal-terrain.js) -------------------
    viewer,           \* the NeutronSimViewer of the page: params.dynamicMode,
                      \* animationActive, _wasActiveBeforeHidden, the play
                      \* button's text, simulationTime (in frames), the pending
                      \* mode-change timeouts; history: animationActive when
                      \* the page was last hidden, and whether only the play
                      \* button was used since dynamic mode was set up
    hidden            \* document.hidden

nvars == <<num_neutrons, max_lifetime, fission_probability, max_distance, neutrons, fission_events, simulation_time, upd, cause, last, frame>>
tvars == <<terrains, heightCache, lastColor, regens, rdfile>>
qvars == <<n_divisions, sq, pipeline>>
kvars == <<tracks, scene>>
wvars == <<viewer, hidden>>
vars  == <<nvars, tvars, qvars, kvars, wvars>>

-----------------------------------------------------------------------------
(***************************************************************************)
(* Bounds of the exploration                                               *)
(***************************************************************************)
MaxUpdates  == 2     \* number of NeutronSimulation::update() calls explored
MaxN        == 2     \* terrain exponent n ranges over 1..MaxN
MaxTerrains == 2     \* FractalTerrain objects constructed in one process
MaxGens     == 1     \* generateTerrain() calls explored after the constructors'
MaxDiv      == 2     \* n_divisions ranges over 1..MaxDiv

(***************************************************************************)
(* Tunables of the dynamic simulation (module-level globals of the source).*)
(* timestep is the value of "--time 5", with which the periodic respawn    *)
(* falls on every second update.  absorption_probability, mean_free_path   *)
(* and source_radius have their source defaults.  max_lifetime,            *)
(* fission_probability and max_distance are variables fixed at start-up to *)
(* one of the Tunings: a short-lived population with fission, in which     *)
(* lifetime expiry, escape and spawning happen within a few updates, and a *)
(* long-lived one without fission in a wide region, in which a neutron     *)
(* scatters several times.                                                 *)
(***************************************************************************)
timestep               == 50     \* 5.0 time units
absorption_probability == 100    \* 0.1
mean_free_path         == 200    \* 2.0  (hundredths)
source_radius          == 50     \* 0.5  (hundredths)
Tunings ==
    { [max_lifetime |-> 50,  fission_probability |-> 150, max_distance |-> 1000],
      [max_lifetime |-> 100, fission_probability |-> 0,   max_distance |-> 3000] }

NUM_ENERGY_GROUPS == 3
GROUP_ENERGIES == <<10, 5, 1>>
SCATTERING_PROBABILITIES ==
    << <<500, 400, 100>>,
       <<  0, 600, 400>>,
       <<  0,   0, 1000>> >>

RESPAWN_PERIOD    == 100   \* the literal 10.0f of fmod(simulation_time, 10.0f)
MAX_FISSION_EVENTS == 20   \* the literal 20 of fission_events.size() > 20

-----------------------------------------------------------------------------
(***************************************************************************)
(* Arithmetic helpers                                                      *)
(***************************************************************************)
Min(a, b) == IF a < b THEN a ELSE b
Max(a, b) == IF a > b THEN a ELSE b
Abs(a)    == IF a < 0 THEN -a ELSE a

RECURSIVE ISqrtBetween(_, _, _)
\* the largest r in lo..hi with r * r <= x, by bisection
ISqrtBetween(x, lo, hi) ==
    IF lo >= hi THEN lo
    ELSE LET mid == (lo + hi + 1) \div 2
         IN IF mid * mid <= x THEN ISqrtBetween(x, mid, hi)
            ELSE ISqrtBetween(x, lo, mid - 1)
\* floor of the square root (std::sqrt on the fixed-point grid)
ISqrt(x) == IF x <= 0 THEN 0 ELSE ISqrtBetween(x, 0, Min(x, 46340))

RECURSIVE ExpTerms(_, _, _, _)
\* sum_{k>=j} (-x)^k / k!  in thousandths, term = (-x)^(j-1)/(j-1)!
ExpTerms(x, j, term, acc) ==
    IF j > 12 \/ term = 0 THEN acc
    ELSE LET mag == (Abs(term) * x) \div (1000 * j)
             t   == IF term > 0 THEN -mag ELSE mag
         IN ExpTerms(x, j + 1, t, acc + t)
\* std::exp(-x) for x >= 0, x and result in thousandths
ExpNeg(x) == ExpTerms(x, 1, 1000, 1000)

-----------------------------------------------------------------------------
(***************************************************************************)
(* RandomGenerator: the values the generator can hand out.  A uniform draw *)
(* is a value in thousandths; a random direction is one of a few unit      *)
(* vectors (phi and costheta at multiples of a quarter turn).              *)
(***************************************************************************)
Draws      == {250, 800, 900}
Dirs       == { <<1, 0, 0>>, <<-1, 0, 0>> }
RadiusDraws == {125}             \* draws fed to pow(u, 1/3) in Neutron::init

RECURSIVE ICbrtFrom(_, _)
ICbrtFrom(x, r) == IF (r + 1) * (r + 1) * (r + 1) > x THEN r ELSE ICbrtFrom(x, r + 50)
\* std::pow(u, 1.0f / 3.0f), u and result in thousandths (resolution 0.05)
Cbrt(u) == ICbrtFrom(u * 1000000, 0)

Scale(v, k) == <<v[1] * k, v[2] * k, v[3] * k>>
Add(v, w)   == <<v[1] + w[1], v[2] + w[2], v[3] + w[3]>>
Dist2(p)    == p[1] * p[1] + p[2] * p[2] + p[3] * p[3]

(***************************************************************************)
(* class Neutron                                                           *)
(***************************************************************************)
\* Neutron::Neutron(): an inactive neutron at the origin
DefaultNeutron ==
    [position |-> <<0, 0, 0>>, velocity |-> <<0, 0, 0>>,
     energy_group |-> 0, lifetime |-> 0, active |-> FALSE]

\* Neutron::init(random_gen); d = [u |-> radius draw, pdir |-> direction of
\* the position (phi, costheta), dir |-> randomDirection result]
NeutronInit(d) ==
    LET r == (source_radius * Cbrt(d.u)) \div 1000
    IN [position |-> Scale(d.pdir, r), velocity |-> d.dir,
        energy_group |-> 0, lifetime |-> 0, active |-> TRUE]

\* variant: the child starts at the origin, as a default neutron does
InitFromFissionAtOrigin(pos, dir) ==
    [position |-> <<0, 0, 0>>, velocity |-> dir,
     energy_group |-> 0, lifetime |-> 0, active |-> TRUE]

\* Neutron::initFromFission(pos, random_gen)
InitFromFission(pos, dir) ==
    [position |-> pos, velocity |-> dir,
     energy_group |-> 0, lifetime |-> 0, active |-> TRUE]

PoolSizes == {0, 1, 2, 3}        \* the values of --neutrons explored

PosDirs == { <<1, 0, 0>> }       \* directions of the start position
InitDraws == [u : RadiusDraws, pdir : PosDirs, dir : Dirs]

\* indices of the inactive slots of a pool
InactiveSlots(pool) == {j \in 1..Len(pool) : ~pool[j].active}

\* number of elements of S that are <= j
Rank(S, j) == Cardinality({m \in S : m <= j})

\* The slots visited by a loop of the form
\*    for (auto& n : neutrons) if (!n.active) { ...; c++; if (c >= limit) break; }
\* the test follows the increment, so the first inactive slot is always taken.
LoopTake(pool, limit) ==
    {j \in InactiveSlots(pool) : Rank(InactiveSlots(pool), j) <= Max(limit, 1)}

\* variant: children that find no inactive slot are appended to the pool
SpawnFromFissionGrow(pool, pos, k, dirs) ==
    [j \in 1..Len(pool) |->
        IF j \in LoopTake(pool, k)
        THEN InitFromFission(pos, dirs[Rank(InactiveSlots(pool), j)])
        ELSE pool[j]]
    \o [c \in 1..(k - Min(k, Cardinality(InactiveSlots(pool)))) |->
          InitFromFission(pos, dirs[Cardinality(InactiveSlots(pool)) + c])]

\* the spawning loop of the fission branch of Neutron::update()
SpawnFromFission(pool, pos, k, dirs) ==
    [j \in 1..Len(pool) |->
        IF j \in LoopTake(pool, k)
        THEN InitFromFission(pos, dirs[Rank(InactiveSlots(pool), j)])
        ELSE pool[j]]

\* variant: a full deque gives up its newest event instead of its oldest
RecordFissionEvictNewest(events, e) ==
    IF Len(events) >= MAX_FISSION_EVENTS
    THEN Append(SubSeq(events, 1, Len(events) - 1), e)
    ELSE Append(events, e)

\* fission_events.push_back(e); if (size() > 20) pop_front();
RecordFission(events, e) ==
    LET pushed == Append(events, e)
    IN IF Len(pushed) > MAX_FISSION_EVENTS THEN Tail(pushed) ELSE pushed

\* mean_free_path * (1.0f + GROUP_ENERGIES[g] * 0.1f), hundredths
MeanFreePathEnergy(g) == (mean_free_path * (10 + GROUP_ENERGIES[g + 1])) \div 10

\* 1.0f - std::exp(-dt / mean_free_path_energy), thousandths.
\* dt is in tenths and the path in hundredths: dt/mfp = dt*10/mfp.
InteractionProbOf(g, dt) == 1000 - ExpNeg((dt * 10 * 1000) \div MeanFreePathEnergy(g))
\* the same, tabulated for the one dt the simulation passes (timestep)
InteractionProbTable == [g \in 0..(NUM_ENERGY_GROUPS - 1) |-> InteractionProbOf(g, timestep)]
InteractionProb(g, dt) == IF dt = timestep THEN InteractionProbTable[g]
                          ELSE InteractionProbOf(g, dt)

\* the target-group loop of the scatter branch
RECURSIVE ScatterLoop(_, _, _, _)
ScatterLoop(g, scatter_r, target, cumulative) ==
    IF target >= NUM_ENERGY_GROUPS THEN g
    ELSE LET c == cumulative + SCATTERING_PROBABILITIES[g + 1][target + 1]
         IN IF scatter_r < c THEN target
            ELSE ScatterLoop(g, scatter_r, target + 1, c)
\* variant: the loop reads the row of the matrix back to front
RECURSIVE ScatterLoopReversed(_, _, _, _)
ScatterLoopReversed(g, scatter_r, target, cumulative) ==
    IF target >= NUM_ENERGY_GROUPS THEN g
    ELSE LET c == cumulative
                  + SCATTERING_PROBABILITIES[g + 1][NUM_ENERGY_GROUPS - target]
         IN IF scatter_r < c THEN target
            ELSE ScatterLoopReversed(g, scatter_r, target + 1, c)
ScatterGroupReversed(g, scatter_r) == ScatterLoopReversed(g, scatter_r, 0, 0)

ScatterGroup(g, scatter_r) == ScatterLoop(g, scatter_r, 0, 0)

\* std::sqrt(GROUP_ENERGIES[g]) * 2.0f * dt, hundredths of length
SpeedTable == [g \in 0..(NUM_ENERGY_GROUPS - 1) |-> 2 * ISqrt(GROUP_ENERGIES[g + 1] * 1000000)]
StepLength(g, dt) == (SpeedTable[g] * dt) \div 100

\* variant: the squared distance is compared with max_distance itself
AdvanceUnsquared(nt, dt) ==
    LET p == Add(nt.position, Scale(nt.velocity, StepLength(nt.energy_group, dt)))
    IN [nt EXCEPT !.position = p,
                  !.active = ~(Dist2(p) > max_distance)]

\* variant: the neutron is advanced without the distance check
AdvanceNoEscape(nt, dt) ==
    [nt EXCEPT !.position = Add(nt.position,
                                Scale(nt.velocity, StepLength(nt.energy_group, dt)))]

\* lines 285-295: advance the position, deactivate beyond max_distance
Advance(nt, dt) ==
    LET p == Add(nt.position, Scale(nt.velocity, StepLength(nt.energy_group, dt)))
    IN [nt EXCEPT !.position = p,
                  !.active = ~(Dist2(p) > max_distance * max_distance)]

UpdDraws == [u : Draws, r : Draws, scatter_r : Draws, split : Draws,
             dir : Dirs, children : [1..3 -> Dirs]]

\* The draws one Neutron::update() call on neutron nt can consume.  A draw the
\* call does not reach is pinned to one value, so that every behaviour of the
\* call is listed once.
DrawsFor(nt, dt) ==
    LET u0 == CHOOSE x \in Draws : TRUE
        v0 == CHOOSE x \in Dirs : TRUE
        c0 == [j \in 1..3 |-> v0]
        p  == InteractionProb(nt.energy_group, dt)
        hit  == {x \in Draws : x < p}
        miss == {x \in Draws : ~(x < p)}
        sc == {x \in Draws : x < 1000 - absorption_probability - fission_probability}
        ab == {x \in Draws : /\ x \notin sc
                             /\ x < 1000 - fission_probability}
        fi == (Draws \ sc) \ ab
    IN IF ~nt.active \/ nt.lifetime + dt > max_lifetime
       THEN {[u |-> u0, r |-> u0, scatter_r |-> u0, split |-> u0, dir |-> v0, children |-> c0]}
       ELSE [u : miss, r : {u0}, scatter_r : {u0}, split : {u0}, dir : {v0}, children : {c0}]
            \cup [u : hit, r : sc, scatter_r : Draws, split : {u0}, dir : Dirs, children : {c0}]
            \cup [u : hit, r : ab, scatter_r : {u0}, split : {u0}, dir : {v0}, children : {c0}]
            \cup [u : hit, r : fi, scatter_r : {u0}, split : Draws, dir : {v0},
                  children : [1..3 -> Dirs]]

\* variant: the absorption band ends at 1 - absorption_probability
NeutronUpdateAbsorbBand(pool, events, i, dt, t, d) ==
    LET me    == pool[i]
        aged  == [me EXCEPT !.lifetime = me.lifetime + dt]
        same  == [neutrons |-> pool, fission_events |-> events]
    IN
    IF ~me.active THEN same @@ [outcome |-> "inactive", k |-> 0]
    ELSE IF aged.lifetime > max_lifetime
    THEN [neutrons |-> [pool EXCEPT ![i] = [aged EXCEPT !.active = FALSE]],
          fission_events |-> events, outcome |-> "expired", k |-> 0]
    ELSE IF d.u < InteractionProb(me.energy_group, dt)
    THEN IF d.r < 1000 - absorption_probability - fission_probability
         THEN LET sc == [aged EXCEPT !.velocity = d.dir,
                                     !.energy_group = ScatterGroup(me.energy_group, d.scatter_r)]
              IN [neutrons |-> [pool EXCEPT ![i] = Advance(sc, dt)],
                  fission_events |-> events, outcome |-> "scatter", k |-> 0]
         ELSE IF d.r < 1000 - absorption_probability
         THEN [neutrons |-> [pool EXCEPT ![i] = [aged EXCEPT !.active = FALSE]],
               fission_events |-> events, outcome |-> "absorb", k |-> 0]
         ELSE LET new_neutrons == IF d.split < 500 THEN 3 ELSE 2
                  off == [pool EXCEPT ![i] = [aged EXCEPT !.active = FALSE]]
              IN [neutrons |-> SpawnFromFission(off, me.position, new_neutrons, d.children),
                  fission_events |->
                      RecordFission(events, [position |-> me.position, time |-> t]),
                  outcome |-> "fission", k |-> new_neutrons]
    ELSE [neutrons |-> [pool EXCEPT ![i] = Advance(aged, dt)],
          fission_events |-> events, outcome |-> "move", k |-> 0]

\* variant: a neutron expires when its lifetime reaches max_lifetime
NeutronUpdateExpiresAtLimit(pool, events, i, dt, t, d) ==
    LET me    == pool[i]
        aged  == [me EXCEPT !.lifetime = me.lifetime + dt]
        same  == [neutrons |-> pool, fission_events |-> events]
    IN
    IF ~me.active THEN same @@ [outcome |-> "inactive", k |-> 0]
    ELSE IF aged.lifetime >= max_lifetime
    THEN [neutrons |-> [pool EXCEPT ![i] = [aged EXCEPT !.active = FALSE]],
          fission_events |-> events, outcome |-> "expired", k |-> 0]
    ELSE IF d.u < InteractionProb(me.energy_group, dt)
    THEN IF d.r < 1000 - absorption_probability - fission_probability
         THEN LET sc == [aged EXCEPT !.velocity = d.dir,
                                     !.energy_group = ScatterGroup(me.energy_group, d.scatter_r)]
              IN [neutrons |-> [pool EXCEPT ![i] = Advance(sc, dt)],
                  fission_events |-> events, outcome |-> "scatter", k |-> 0]
         ELSE IF d.r < 1000 - fission_probability
         THEN [neutrons |-> [pool EXCEPT ![i] = [aged EXCEPT !.active = FALSE]],
               fission_events |-> events, outcome |-> "absorb", k |-> 0]
         ELSE LET new_neutrons == IF d.split < 500 THEN 3 ELSE 2
                  off == [pool EXCEPT ![i] = [aged EXCEPT !.active = FALSE]]
              IN [neutrons |-> SpawnFromFission(off, me.position, new_neutrons, d.children),
                  fission_events |->
                      RecordFission(events, [position |-> me.position, time |-> t]),
                  outcome |-> "fission", k |-> new_neutrons]
    ELSE [neutrons |-> [pool EXCEPT ![i] = Advance(aged, dt)],
          fission_events |-> events, outcome |-> "move", k |-> 0]

(***************************************************************************)
(* Neutron::update(dt, neutrons, fission_events, simulation_time, rng) on  *)
(* slot i.  Result: the pool, the event deque and what happened.           *)
(***************************************************************************)
NeutronUpdate(pool, events, i, dt, t, d) ==
    LET me    == pool[i]
        aged  == [me EXCEPT !.lifetime = me.lifetime + dt]
        same  == [neutrons |-> pool, fission_events |-> events]
    IN
    IF ~me.active THEN same @@ [outcome |-> "inactive", k |-> 0]
    ELSE IF aged.lifetime > max_lifetime
    THEN [neutrons |-> [pool EXCEPT ![i] = [aged EXCEPT !.active = FALSE]],
          fission_events |-> events, outcome |-> "expired", k |-> 0]
    ELSE IF d.u < InteractionProb(me.energy_group, dt)
    THEN IF d.r < 1000 - absorption_probability - fission_probability
         THEN LET sc == [aged EXCEPT !.velocity = d.dir,
                                     !.energy_group = ScatterGroup(me.energy_group, d.scatter_r)]
              IN [neutrons |-> [pool EXCEPT ![i] = Advance(sc, dt)],
                  fission_events |-> events, outcome |-> "scatter", k |-> 0]
         ELSE IF d.r < 1000 - fission_probability
         THEN [neutrons |-> [pool EXCEPT ![i] = [aged EXCEPT !.active = FALSE]],
               fission_events |-> events, outcome |-> "absorb", k |-> 0]
         ELSE LET new_neutrons == IF d.split < 500 THEN 3 ELSE 2
                  off == [pool EXCEPT ![i] = [aged EXCEPT !.active = FALSE]]
              IN [neutrons |-> SpawnFromFission(off, me.position, new_neutrons, d.children),
                  fission_events |->
                      RecordFission(events, [position |-> me.position, time |-> t]),
                  outcome |-> "fission", k |-> new_neutrons]
    ELSE [neutrons |-> [pool EXCEPT ![i] = Advance(aged, dt)],
          fission_events |-> events, outcome |-> "move", k |-> 0]

-----------------------------------------------------------------------------
(***************************************************************************)
(* class FractalTerrain (unnamed/part_000).  Heights, sigma and delta are  *)
(* in thousandths; D and H in tenths.  grid[x][y] is grid[<<x, y>>].       *)
(***************************************************************************)
LCG_M == 65537   \* modulus of the generator standing for std::mt19937

\* a * b on the thousandths grid, rounded toward zero
MulMilli(a, b) ==
    LET m == (Abs(a) * Abs(b)) \div 1000
    IN IF (a < 0) = (b < 0) THEN m ELSE -m

\* a / k, rounded toward zero
DivTrunc(a, k) == IF a < 0 THEN -((-a) \div k) ELSE a \div k

RECURSIVE SumSeq(_)
SumSeq(q) == IF q = <<>> THEN 0 ELSE Head(q) + SumSeq(Tail(q))

RECURSIVE ConcatAll(_)
ConcatAll(ss) == IF ss = <<>> THEN <<>> ELSE Head(ss) \o ConcatAll(Tail(ss))

RECURSIVE RangeSeq(_, _, _)
\* the values of  for (v = from; v <= to; v += step)
RangeSeq(from, to, step) ==
    IF from > to THEN <<>> ELSE <<from>> \o RangeSeq(from + step, to, step)

\* the bodies of  for (x in xs) for (y in ys) F(x, y), in execution order
ForXY(xs, ys, F(_, _)) ==
    ConcatAll([i \in 1..Len(xs) |-> [j \in 1..Len(ys) |-> F(xs[i], ys[j])]])

RECURSIVE Pow2(_)
Pow2(k) == IF k <= 0 THEN 1 ELSE 2 * Pow2(k - 1)    \* 1 << k

\* variant: the generator is not reseeded and goes on from where it stands
InitGaussNoReseed(rng, seed) == rng

\* FractalTerrain::InitGauss(seed): rng.seed(seed), distribution reset
InitGauss(rng, seed) == seed % LCG_M

\* FractalTerrain::Gauss(): one draw; the generator advances by one step
GaussNext(rng)  == (rng * 75 + 74) % LCG_M
GaussValue(rng) == (((GaussNext(rng) \div 7) % 9) - 4) * 250

\* pow(0.5, 0.5 * H) for H a multiple of 0.5 (H in tenths)
RECURSIVE PowQuarter(_)
PowQuarter(k) ==
    IF k <= 0 THEN 1000
    ELSE MulMilli(PowQuarter(k - 1), ISqrt(ISqrt(500000) * 1000))
HalfPow(H) == PowQuarter(H \div 5)

(* The writes of generateTerrain() in execution order.  "seed" and "avg"   *)
(* replace the cell (a corner seed, an f3/f4 average of the cells read);   *)
(* "add" adds delta * Gauss() to the cell; "scale" is delta *= pow(..).    *)
SeedOp(x, y)       == [kind |-> "seed", cell |-> <<x, y>>, reads |-> <<>>]
AvgOp(x, y, reads) == [kind |-> "avg", cell |-> <<x, y>>, reads |-> reads]
AddOp(x, y)        == [kind |-> "add", cell |-> <<x, y>>, reads |-> << <<x, y>> >>]
ScaleOp            == [kind |-> "scale", cell |-> <<0, 0>>, reads |-> <<>>]

\* variant: the corners are perturbed in place instead of being seeded
CornerOpsAccumulate(N) == << AddOp(0, 0), AddOp(0, N), AddOp(N, 0), AddOp(N, N) >>

\* lines 97-102
CornerOps(N) == << SeedOp(0, 0), SeedOp(0, N), SeedOp(N, 0), SeedOp(N, N) >>

\* variant: the centre averages corners a full lattice step away
DiamondOpsWide(N, D, d) ==
    ForXY(RangeSeq(d, N - 1, D), RangeSeq(d, N - 1, D),
          LAMBDA x, y : AvgOp(x, y, << <<x + D, y + D>>, <<x + D, y - D>>,
                                       <<x - D, y + D>>, <<x - D, y - D>> >>))

\* lines 114-120: centre of each square
DiamondOps(N, D, d) ==
    ForXY(RangeSeq(d, N - 1, D), RangeSeq(d, N - 1, D),
          LAMBDA x, y : AvgOp(x, y, << <<x + d, y + d>>, <<x + d, y - d>>,
                                       <<x - d, y + d>>, <<x - d, y - d>> >>))

\* lines 123-127 and 161-165: re-perturb the D lattice
LatticeOps(N, D) ==
    ForXY(RangeSeq(0, N, D), RangeSeq(0, N, D), LAMBDA x, y : AddOp(x, y))

\* lines 134-143: midpoints of the boundary edges
BoundaryOps(N, D, d) ==
    ConcatAll([i \in 1..Len(RangeSeq(d, N - 1, D)) |->
        LET x == RangeSeq(d, N - 1, D)[i]
        IN << AvgOp(x, 0, << <<x + d, 0>>, <<x - d, 0>>, <<x, d>> >>),
              AvgOp(x, N, << <<x + d, N>>, <<x - d, N>>, <<x, N - d>> >>),
              AvgOp(0, x, << <<0, x + d>>, <<0, x - d>>, <<d, x>> >>),
              AvgOp(N, x, << <<N, x + d>>, <<N, x - d>>, <<N - d, x>> >>) >>])

EdgeReads(x, y, d) == << <<x, y + d>>, <<x, y - d>>, <<x + d, y>>, <<x - d, y>> >>

\* variant: the y loop starts one lattice step late
InteriorOpsALate(N, D, d) ==
    ForXY(RangeSeq(d, N - 1, D), RangeSeq(2 * D, N - 1, D),
          LAMBDA x, y : AvgOp(x, y, << <<x, y + d>>, <<x, y - d>>,
                                       <<x + d, y>>, <<x - d, y>> >>))

\* lines 146-151: interior edge midpoints, x on the d offsets, y on the D lattice
InteriorOpsA(N, D, d) ==
    ForXY(RangeSeq(d, N - 1, D), RangeSeq(D, N - 1, D),
          LAMBDA x, y : AvgOp(x, y, EdgeReads(x, y, d)))

\* lines 153-158: interior edge midpoints, x on the D lattice, y on the d offsets
InteriorOpsB(N, D, d) ==
    ForXY(RangeSeq(D, N - 1, D), RangeSeq(d, N - 1, D),
          LAMBDA x, y : AvgOp(x, y, EdgeReads(x, y, d)))

\* variant: the centre pass replaces each cell by a fresh draw
CentreOpsReseed(N, D, d) ==
    ForXY(RangeSeq(d, N - 1, D), RangeSeq(d, N - 1, D), LAMBDA x, y : SeedOp(x, y))

\* lines 167-171: re-perturb the square centres
CentreOps(N, D, d) ==
    ForXY(RangeSeq(d, N - 1, D), RangeSeq(d, N - 1, D), LAMBDA x, y : AddOp(x, y))

\* one iteration of the stage loop, lines 110-171
StageOps(N, D, d) ==
    <<ScaleOp>> \o DiamondOps(N, D, d) \o LatticeOps(N, D)
    \o <<ScaleOp>> \o BoundaryOps(N, D, d) \o InteriorOpsA(N, D, d)
    \o InteriorOpsB(N, D, d) \o LatticeOps(N, D) \o CentreOps(N, D, d)

RECURSIVE StageLoop(_, _, _, _, _)
\* for (stage = 1; stage <= n; stage++) { ...; D = D / 2; d = d / 2; }
StageLoop(N, D, d, stage, n) ==
    IF stage > n THEN <<>>
    ELSE StageOps(N, D, d) \o StageLoop(N, D \div 2, d \div 2, stage + 1, n)

TerrainOps(n) ==
    LET N == Pow2(n) IN CornerOps(N) \o StageLoop(N, N, N \div 2, 1, n)

\* history kept while generateTerrain() runs
EmptyTrace == [assigned |-> {}, log |-> <<>>, twice |-> {}, unset |-> {}, oob |-> {}]

\* the effect of one write on the running state st of generateTerrain()
ApplyOp(st, op, H) ==
    LET inGrid(c) == c \in DOMAIN st.grid
        val(c)    == IF inGrid(c) THEN st.grid[c] ELSE 0
        noise     == MulMilli(st.delta, GaussValue(st.rng))
        sum       == SumSeq([k \in 1..Len(op.reads) |-> val(op.reads[k])])
        newval    == CASE op.kind = "seed" -> noise
                       [] op.kind = "avg"  -> DivTrunc(sum, Len(op.reads)) + noise
                       [] OTHER            -> val(op.cell) + noise
        rd        == {op.reads[k] : k \in 1..Len(op.reads)}
        tr        == st.trace
    IN IF op.kind = "scale"
       THEN [st EXCEPT !.delta = MulMilli(st.delta, HalfPow(H))]
       ELSE [grid  |-> IF inGrid(op.cell)
                       THEN [st.grid EXCEPT ![op.cell] = newval] ELSE st.grid,
             delta |-> st.delta,
             rng   |-> GaussNext(st.rng),
             trace |->
               [assigned |-> IF op.kind = "add" THEN tr.assigned
                             ELSE tr.assigned \cup {op.cell},
                log      |-> Append(tr.log, [cell |-> op.cell, draw |-> GaussValue(st.rng)]),
                twice    |-> IF op.kind # "add" /\ op.cell \in tr.assigned
                             THEN tr.twice \cup {op.cell} ELSE tr.twice,
                unset    |-> tr.unset \cup {c \in rd : c \notin tr.assigned},
                oob      |-> tr.oob \cup {c \in rd \cup {op.cell} : ~inGrid(c)}]]

RECURSIVE RunOps(_, _, _, _, _)
\* the writes ops[lo..hi] applied in order: the first half, then the second
\* (the test on left.rng only makes the first half's evaluation happen
\* before the second half starts)
RunOps(st, ops, lo, hi, H) ==
    IF lo > hi THEN st
    ELSE IF lo = hi THEN ApplyOp(st, ops[lo], H)
    ELSE LET mid  == (lo + hi) \div 2
             left == RunOps(st, ops, lo, mid, H)
         IN IF left.rng >= 0 THEN RunOps(left, ops, mid + 1, hi, H) ELSE left

\* the writes of generateTerrain() for each exponent n
TerrainOpsTable == [n \in 1..MaxN |-> TerrainOps(n)]

\* FractalTerrain::generateTerrain() on object t
GenerateTerrain(t) ==
    LET ops == TerrainOpsTable[t.n]
        st  == RunOps([grid |-> t.grid, delta |-> t.sigma,
                       rng |-> InitGauss(t.rng, t.seed), trace |-> EmptyTrace],
                      ops, 1, Len(ops), t.H)
    IN [t EXCEPT !.grid = st.grid, !.rng = st.rng, !.trace = st.trace]

\* FractalTerrain::FractalTerrain(n, D, seed, sigma)
NewTerrain(n, D, seed, sigma) ==
    LET size == Pow2(n) + 1
    IN GenerateTerrain(
         [n |-> n, D |-> D, H |-> 30 - D, seed |-> seed, sigma |-> sigma,
          grid |-> [c \in (0..(size - 1)) \X (0..(size - 1)) |-> 0],
          rng |-> 5489 % LCG_M, trace |-> EmptyTrace])

\* the full scan of getColor() / exportToRD() for the extreme heights
Heights(g) == {g[c] : c \in DOMAIN g}
GridMin(g) == CHOOSE v \in Heights(g) : \A w \in Heights(g) : v <= w
GridMax(g) == CHOOSE v \in Heights(g) : \A w \in Heights(g) : v >= w

\* lines 199-215 of getColor(): the statics after a call on object t
HeightsAfter(cache, t) ==
    IF ~cache.heightsCalculated
    THEN [minHeight |-> GridMin(t.grid), maxHeight |-> GridMax(t.grid),
          heightsCalculated |-> TRUE]
    ELSE cache

TerrainDs     == {25}           \* fractal dimension 2.5
TerrainSeeds  == {42, 7}
TerrainSigmas == {1000}         \* sigma = 1.0

\* the object each constructor call leaves
Constructed ==
    [n \in 1..MaxN, D \in TerrainDs, seed \in TerrainSeeds, sigma \in TerrainSigmas |->
        NewTerrain(n, D, seed, sigma)]

InitTerrain ==
    /\ terrains = <<>>
    /\ heightCache = [minHeight |-> 0, maxHeight |-> 0, heightsCalculated |-> FALSE]
    /\ lastColor = [obj |-> 0, height |-> 0, lo |-> 0, hi |-> 0, color |-> <<0, 0, 0>>]
    /\ regens = 0
    /\ rdfile = [obj |-> 0, declared |-> <<0, 0>>, vertices |-> <<>>, faces |-> <<>>]

\* main(): FractalTerrain terrain(n, D, seed, sigma)
ConstructTerrain ==
    /\ rdfile.obj = 0
    /\ Len(terrains) < MaxTerrains
    /\ \E n \in 1..MaxN, D \in TerrainDs, seed \in TerrainSeeds, sigma \in TerrainSigmas :
           terrains' = Append(terrains, Constructed[n, D, seed, sigma])
    /\ UNCHANGED <<heightCache, lastColor, regens, rdfile>>
    /\ UNCHANGED <<nvars, qvars, kvars, wvars>>

\* a further call of the public generateTerrain() on an existing object
Regenerate ==
    /\ rdfile.obj = 0
    /\ regens < MaxGens
    /\ regens' = regens + 1
    /\ \E i \in 1..Len(terrains) :
          terrains' = [terrains EXCEPT ![i] = GenerateTerrain(terrains[i])]
    /\ UNCHANGED <<heightCache, lastColor, rdfile>>
    /\ UNCHANGED <<nvars, qvars, kvars, wvars>>

\* the cells whose heights are handed to getColor()
ProbeCells(t) == {<<0, 0>>, <<Pow2(t.n) \div 2, Pow2(t.n) \div 2>>, <<Pow2(t.n), Pow2(t.n)>>}

\* variant: the blend parameter runs over blendWidth, not 2 * blendWidth
BandColorHalfBlend(h) ==
    LET T == <<200, 300, 400, 600, 800>>
        C == << <<0, 0, 500>>, <<0, 0, 800>>, <<760, 700, 500>>, <<0, 600, 0>>,
                <<500, 350, 50>>, <<1000, 1000, 1000>> >>
        lerp(a, b, num) == a + DivTrunc(num * (b - a), 30)
        below == {k \in 1..5 : h < T[k] + 30}
    IN IF below = {} THEN C[6]
       ELSE LET k == CHOOSE j \in below : \A m \in below : j <= m
            IN IF h < T[k] - 30 THEN C[k]
               ELSE [i \in 1..3 |-> lerp(C[k][i], C[k + 1][i], h - (T[k] - 30))]

\* lines 220-310 of getColor(): the colour of a normalised height h
\* (thousandths); the first threshold T[k] with h < T[k] + blendWidth picks
\* the branch of the ladder: pure below T[k] - blendWidth, else the blend
BandColor(h) ==
    LET T == <<200, 300, 400, 600, 800>>
        C == << <<0, 0, 500>>, <<0, 0, 800>>, <<760, 700, 500>>, <<0, 600, 0>>,
                <<500, 350, 50>>, <<1000, 1000, 1000>> >>
        lerp(a, b, num) == a + DivTrunc(num * (b - a), 2 * 30)
        below == {k \in 1..5 : h < T[k] + 30}
    IN IF below = {} THEN C[6]
       ELSE LET k == CHOOSE j \in below : \A m \in below : j <= m
            IN IF h < T[k] - 30 THEN C[k]
               ELSE [i \in 1..3 |-> lerp(C[k][i], C[k + 1][i], h - (T[k] - 30))]

\* lines 196-311: the record of a getColor(height) call that finds `cache`
\* in the statics; a zero range makes the quotient infinite or NaN, and NaN
\* fails every comparison of the ladder
ColorOf(i, height, cache) ==
    LET range == cache.maxHeight - cache.minHeight
        nh == IF range # 0 THEN DivTrunc((height - cache.minHeight) * 1000, range)
              ELSE IF height < cache.minHeight THEN -1000000 ELSE 1000000
    IN [obj |-> i, height |-> height, lo |-> cache.minHeight, hi |-> cache.maxHeight,
        color |-> BandColor(nh)]

\* getColor(grid[y][x]) on an object, as exportToRD() calls it per vertex
GetColor ==
    /\ rdfile.obj = 0
    /\ \E i \in 1..Len(terrains) : \E c \in ProbeCells(terrains[i]) :
          /\ heightCache' = HeightsAfter(heightCache, terrains[i])
          /\ lastColor' = ColorOf(i, terrains[i].grid[c], heightCache')
    /\ UNCHANGED <<terrains, regens, rdfile>>
    /\ UNCHANGED <<nvars, qvars, kvars, wvars>>

\* variant: the row stride of the index is the number of cells per row
CellTrianglesCellStride(size, x, y) ==
    LET v0 == y * (size - 1) + x
        v1 == y * (size - 1) + (x + 1)
        v2 == (y + 1) * (size - 1) + x
        v3 == (y + 1) * (size - 1) + (x + 1)
    IN << <<v0, v1, v2>>, <<v1, v3, v2>> >>

\* lines 399-408: the two face records of grid cell (x, y)
CellTriangles(size, x, y) ==
    LET v0 == y * size + x
        v1 == y * size + (x + 1)
        v2 == (y + 1) * size + x
        v3 == (y + 1) * size + (x + 1)
    IN << <<v0, v1, v2>>, <<v1, v3, v2>> >>

\* exportToRD() on the object constructed last, the last call of main(): the
\* header counts, one vertex record per (y, x) with the colour getColor()
\* returns, two face records per cell
ExportToRD ==
    /\ rdfile.obj = 0
    /\ \E i \in {Len(terrains)} \ {0} : \E cache \in {HeightsAfter(heightCache, terrains[i])} :
          LET t     == terrains[i]
              size  == Pow2(t.n) + 1
          IN /\ rdfile' =
                  [obj |-> i,
                   declared |-> <<size * size, (size - 1) * (size - 1) * 2>>,
                   vertices |-> ForXY(RangeSeq(0, size - 1, 1), RangeSeq(0, size - 1, 1),
                                   LAMBDA y, x : [x |-> x, y |-> y, z |-> t.grid[<<y, x>>],
                                       color |-> ColorOf(i, t.grid[<<y, x>>], cache).color]),
                   faces |-> ConcatAll(ForXY(RangeSeq(0, size - 2, 1), RangeSeq(0, size - 2, 1),
                                   LAMBDA y, x : CellTriangles(size, x, y)))]
             /\ heightCache' = cache
             /\ lastColor' = ColorOf(i, t.grid[<<size - 1, size - 1>>], cache)
    /\ UNCHANGED <<terrains, regens>>
    /\ UNCHANGED <<nvars, qvars, kvars, wvars>>

-----------------------------------------------------------------------------
(***************************************************************************)
(* REDirect::rd_sqsphere / rd_sqtorus (rd_view/assign4/superQuadrics.cc).  *)
(* Lengths, sines and normals are in thousandths, angles in whole degrees. *)
(* A float that is NaN is carried as a flag.  The two functions are        *)
(* followed loop iteration by loop iteration.                              *)
(***************************************************************************)
\* sin of x degrees, 0 <= x <= 180 (rational approximation, exact at 0, 30, 90)
SinHalfTurn(x) == (4 * x * (180 - x) * 1000) \div (40500 - x * (180 - x))
SinDeg(a) == LET r == a % 360
             IN IF r <= 180 THEN SinHalfTurn(r) ELSE -SinHalfTurn(r - 180)
CosDeg(a) == SinDeg(a + 90)

\* asin(x) * 180 / M_PI for x in [-1, 1]
AsinDeg(x) ==
    CHOOSE a \in -90..90 : SinDeg(a) <= x /\ (a = 90 \/ SinDeg(a + 1) > x)

RECURSIVE PowMilli(_, _)
\* pow(c, e) for c >= 0 and a whole exponent e
PowMilli(c, e) == IF e <= 0 THEN 1000 ELSE (c * PowMilli(c, e - 1)) \div 1000

\* sgn(c) * pow(fabs(c), e), with sgn(c) = (c >= 0) ? 1 : -1
SignedPow(c, e) == IF c >= 0 THEN PowMilli(c, e) ELSE -PowMilli(-c, e)

Sub(v, w) == <<v[1] - w[1], v[2] - w[2], v[3] - w[3]>>
Cross(v, w) ==
    << DivTrunc(v[2] * w[3] - v[3] * w[2], 1000),
       DivTrunc(v[3] * w[1] - v[1] * w[3], 1000),
       DivTrunc(v[1] * w[2] - v[2] * w[1], 1000) >>
Length(v) == ISqrt(Dist2(v))

\* if (length > 0.0001f) v /= length;  (0.0001 is a tenth of a thousandth)
Normalize(v) ==
    IF Length(v) * 10 > 1
    THEN << DivTrunc(v[1] * 1000, Length(v)), DivTrunc(v[2] * 1000, Length(v)),
            DivTrunc(v[3] * 1000, Length(v)) >>
    ELSE v

\* variant: the degenerate range zmin = zmax is let through
SphereCheckNoDegenerate(a) ==
    IF a.zmin > a.zmax THEN -1
    ELSE IF a.radius <= 0 THEN -1
    ELSE IF a.thetamax <= 0 \/ a.thetamax > 360 THEN -1
    ELSE 0

\* lines 37-52: the validation of rd_sqsphere, its return code or 0 to go on
SphereCheck(a) ==
    IF a.zmin > a.zmax THEN -1
    ELSE IF a.radius <= 0 THEN -1
    ELSE IF a.thetamax <= 0 \/ a.thetamax > 360 THEN -1
    ELSE IF a.zmin = a.zmax THEN -1
    ELSE 0

\* lines 55-60
SphereClampZmin(a) == IF a.zmin < -a.radius THEN -a.radius ELSE a.zmin
SphereClampZmax(a) == IF a.zmax > a.radius THEN a.radius ELSE a.zmax

\* lines 263-274: the validation of rd_sqtorus
TorusCheck(a) ==
    IF a.radius1 <= 0 \/ a.radius2 <= 0 THEN -1
    ELSE IF a.thetamax <= 0 \/ a.thetamax > 360 THEN -1
    ELSE IF a.phimin >= a.phimax THEN -1
    ELSE 0

\* lines 276-277
TorusClampPhimin(a) == IF a.phimin < -180 THEN -180 ELSE a.phimin
TorusClampPhimax(a) == IF a.phimax > 180 THEN 180 ELSE a.phimax

Cells(n) == (0..n) \X (0..n)

\* std::vector<attr_point>(n_divisions + 1): value-initialised points
ZeroPoint == [coord |-> <<0, 0, 0>>, normal |-> <<0, 0, 0>>, nan |-> FALSE]

SqIdle ==
    [fn |-> "none", pc |-> "idle", args |-> <<>>, ret |-> 0,
     obj_normal_flag |-> FALSE,
     zmin |-> 0, zmax |-> 0, phimin |-> 0, phimax |-> 0, nan |-> FALSE,
     grid |-> <<>>, acc |-> <<>>, counts |-> <<>>,
     ui |-> 0, vi |-> 0, written |-> {}, normalled |-> {}]

\* the locals of a call that passed validation, at the start of the first loop
SqStart(fn, a, zmin, zmax, phimin, phimax, nan) ==
    [fn |-> fn, pc |-> "eval", args |-> a, ret |-> 0, obj_normal_flag |-> TRUE,
     zmin |-> zmin, zmax |-> zmax, phimin |-> phimin, phimax |-> phimax, nan |-> nan,
     grid |-> [c \in Cells(n_divisions) |-> ZeroPoint],
     acc |-> [c \in Cells(n_divisions) |-> <<0, 0, 0>>],
     counts |-> [c \in Cells(n_divisions) |-> 0],
     ui |-> 0, vi |-> 0, written |-> {}, normalled |-> {}]

SqRejected(fn, a) ==
    [SqIdle EXCEPT !.fn = fn, !.pc = "done", !.args = a, !.ret = -1,
                   !.obj_normal_flag = TRUE]

\* variant: the rendering loops follow the accumulation directly
NextPhaseNoAverage(pc) ==
    CASE pc = "eval"    -> "accum"
      [] pc = "accum"   -> "emit"
      [] OTHER          -> "done"

\* the order of the four loop nests of a call
NextPhase(pc) ==
    CASE pc = "eval"    -> "accum"
      [] pc = "accum"   -> "average"
      [] pc = "average" -> "emit"
      [] OTHER          -> "done"

\* the last index of the loops of a phase: <= n_divisions or < n_divisions
PhaseLimit(pc) == IF pc \in {"eval", "average"} THEN n_divisions ELSE n_divisions - 1

\* the loop position after the body at (ui, vi) of the current phase
Advance2(c) ==
    IF c.vi < PhaseLimit(c.pc) THEN [c EXCEPT !.vi = c.vi + 1]
    ELSE IF c.ui < PhaseLimit(c.pc) THEN [c EXCEPT !.ui = c.ui + 1, !.vi = 0]
    ELSE [c EXCEPT !.pc = NextPhase(c.pc), !.ui = 0, !.vi = 0]

\* lines 80-106 (sphere) and 285-311 (torus): the point at (ui, vi)
SurfacePoint(c, ui, vi) ==
    LET a     == c.args
        theta == (ui * a.thetamax) \div n_divisions
        phi   == c.phimin + DivTrunc(vi * (c.phimax - c.phimin), n_divisions)
        pct   == SignedPow(CosDeg(theta), a.east)
        pst   == SignedPow(SinDeg(theta), a.east)
        pcp   == SignedPow(CosDeg(phi), a.north)
        psp   == SignedPow(SinDeg(phi), a.north)
        ring  == IF c.fn = "sphere" THEN MulMilli(a.radius, pcp)
                 ELSE a.radius1 + MulMilli(a.radius2, pcp)
        z     == IF c.fn = "sphere" THEN MulMilli(a.radius, psp)
                 ELSE MulMilli(a.radius2, psp)
    IN IF c.nan THEN [coord |-> <<0, 0, 0>>, normal |-> <<0, 0, 0>>, nan |-> TRUE]
       ELSE [coord |-> <<MulMilli(pct, ring), MulMilli(pst, ring), z>>,
             normal |-> <<0, 0, 0>>, nan |-> FALSE]

\* the face normal of the quad at (ui, vi), lines 135-151
FaceNormal(g, ui, vi) ==
    Normalize(Cross(Sub(g[<<ui + 1, vi>>].coord, g[<<ui, vi>>].coord),
                    Sub(g[<<ui, vi + 1>>].coord, g[<<ui, vi>>].coord)))

QuadCorners(ui, vi) == {<<ui, vi>>, <<ui + 1, vi>>, <<ui, vi + 1>>, <<ui + 1, vi + 1>>}

\* lines 170-185: the averaged, renormalised normal of a vertex
AveragedNormal(c, cell) ==
    Normalize(<< DivTrunc(c.acc[cell][1], c.counts[cell]),
                 DivTrunc(c.acc[cell][2], c.counts[cell]),
                 DivTrunc(c.acc[cell][3], c.counts[cell]) >>)

SphereRadii  == {0, 2000}
SphereZs     == {-3000, -2000, 0, 2000, 3000, 4000}
Thetas       == {0, 180, 360, 450}
Exponents    == {1, 2}
TorusRadii   == {0, 1000}
TorusPhis    == {-270, -180, 0, 180, 270, 360}

SphereArgs == [radius : SphereRadii, north : Exponents, east : {1},
               zmin : SphereZs, zmax : SphereZs, thetamax : Thetas]
TorusArgs  == [radius1 : {2000}, radius2 : TorusRadii, north : {1}, east : Exponents,
               phimin : TorusPhis, phimax : TorusPhis, thetamax : Thetas]

InitSq ==
    /\ n_divisions \in 1..MaxDiv
    /\ sq = SqIdle
    /\ pipeline = <<>>

IdleSq ==
    /\ n_divisions = 1
    /\ sq = SqIdle
    /\ pipeline = <<>>

\* rd_sqsphere(radius, north, east, zmin, zmax, thetamax) up to its first loop
SqSphere ==
    /\ sq.pc = "idle"
    /\ \E a \in SphereArgs :
          sq' = IF SphereCheck(a) # 0 THEN SqRejected("sphere", a)
                ELSE LET zmin == SphereClampZmin(a)
                         zmax == SphereClampZmax(a)
                         nan  == Abs(zmin) > a.radius \/ Abs(zmax) > a.radius
                     IN SqStart("sphere", a, zmin, zmax,
                                IF nan THEN 0 ELSE AsinDeg((zmin * 1000) \div a.radius),
                                IF nan THEN 0 ELSE AsinDeg((zmax * 1000) \div a.radius),
                                nan)
    /\ UNCHANGED <<n_divisions, pipeline>>
    /\ UNCHANGED <<nvars, tvars, kvars, wvars>>

\* rd_sqtorus(radius1, radius2, north, east, phimin, phimax, thetamax) likewise
SqTorus ==
    /\ sq.pc = "idle"
    /\ \E a \in TorusArgs :
          sq' = IF TorusCheck(a) # 0 THEN SqRejected("torus", a)
                ELSE SqStart("torus", a, 0, 0,
                             TorusClampPhimin(a), TorusClampPhimax(a), FALSE)
    /\ UNCHANGED <<n_divisions, pipeline>>
    /\ UNCHANGED <<nvars, tvars, kvars, wvars>>

\* one iteration of the evaluation loops (lines 78-121, 283-326)
SqEvalPoint ==
    /\ sq.pc = "eval"
    /\ LET cell == <<sq.ui, sq.vi>>
       IN sq' = Advance2([sq EXCEPT !.grid[cell] = SurfacePoint(sq, sq.ui, sq.vi),
                                    !.written = @ \cup {cell}])
    /\ UNCHANGED <<n_divisions, pipeline>>
    /\ UNCHANGED <<nvars, tvars, kvars, wvars>>

\* one iteration of the accumulation loops (lines 130-163, 335-368)
SqAccumQuad ==
    /\ sq.pc = "accum"
    /\ LET fnorm == FaceNormal(sq.grid, sq.ui, sq.vi)
           cs    == QuadCorners(sq.ui, sq.vi)
       IN sq' = Advance2([sq EXCEPT
                   !.acc = [c \in DOMAIN sq.acc |->
                              IF c \in cs THEN Add(sq.acc[c], fnorm) ELSE sq.acc[c]],
                   !.counts = [c \in DOMAIN sq.counts |->
                              IF c \in cs THEN sq.counts[c] + 1 ELSE sq.counts[c]]])
    /\ UNCHANGED <<n_divisions, pipeline>>
    /\ UNCHANGED <<nvars, tvars, kvars, wvars>>

\* one iteration of the averaging loops (lines 166-188, 371-393)
SqAveragePoint ==
    /\ sq.pc = "average"
    /\ LET cell == <<sq.ui, sq.vi>>
       IN sq' = Advance2(IF sq.counts[cell] > 0
                         THEN [sq EXCEPT !.grid[cell].normal = AveragedNormal(sq, cell),
                                         !.normalled = @ \cup {cell}]
                         ELSE sq)
    /\ UNCHANGED <<n_divisions, pipeline>>
    /\ UNCHANGED <<nvars, tvars, kvars, wvars>>

\* variant: the last two corners are passed in row order (a bow-tie)
EmittedQuadRowOrder(g, ui, vi) ==
    << [cell |-> <<ui, vi>>,         pt |-> g[<<ui, vi>>],         flag |-> "MOVE"],
       [cell |-> <<ui + 1, vi>>,     pt |-> g[<<ui + 1, vi>>],     flag |-> "MOVE"],
       [cell |-> <<ui, vi + 1>>,     pt |-> g[<<ui, vi + 1>>],     flag |-> "MOVE"],
       [cell |-> <<ui + 1, vi + 1>>, pt |-> g[<<ui + 1, vi + 1>>], flag |-> "DRAW"] >>

\* lines 216-225: the four poly_pipeline calls of the quad at (ui, vi)
EmittedQuad(g, ui, vi) ==
    << [cell |-> <<ui, vi>>,         pt |-> g[<<ui, vi>>],         flag |-> "MOVE"],
       [cell |-> <<ui + 1, vi>>,     pt |-> g[<<ui + 1, vi>>],     flag |-> "MOVE"],
       [cell |-> <<ui + 1, vi + 1>>, pt |-> g[<<ui + 1, vi + 1>>], flag |-> "MOVE"],
       [cell |-> <<ui, vi + 1>>,     pt |-> g[<<ui, vi + 1>>],     flag |-> "DRAW"] >>

\* one iteration of the rendering loops (lines 191-227, 396-432)
SqEmitQuad ==
    /\ sq.pc = "emit"
    /\ pipeline' = pipeline \o EmittedQuad(sq.grid, sq.ui, sq.vi)
    /\ sq' = Advance2(sq)
    /\ UNCHANGED n_divisions
    /\ UNCHANGED <<nvars, tvars, kvars, wvars>>

\* the call has returned; the next call starts with fresh locals and an
\* empty record of emitted points
SqReturn ==
    /\ sq.pc = "done"
    /\ sq' = SqIdle
    /\ pipeline' = <<>>
    /\ UNCHANGED n_divisions
    /\ UNCHANGED <<nvars, tvars, kvars, wvars>>

-----------------------------------------------------------------------------
(***************************************************************************)
(* class NeutronSimulation                                                 *)
(***************************************************************************)
\* NeutronSimulation::NeutronSimulation(): resize the pool to num_neutrons
\* default neutrons and init() the first num_neutrons / 3 of them
\* variant: the pool is never left empty
ConstructAtLeastOne(n, draws) ==
    [j \in 1..Max(n, 1) |-> IF j <= n \div 3 THEN NeutronInit(draws[j]) ELSE DefaultNeutron]

Construct(n, draws) ==
    [j \in 1..n |-> IF j <= n \div 3 THEN NeutronInit(draws[j]) ELSE DefaultNeutron]

\* the periodic respawn of NeutronSimulation::update()
Respawn(pool, t, dt, draws) ==
    IF (t % RESPAWN_PERIOD) < dt
    THEN [j \in 1..Len(pool) |->
            IF j \in LoopTake(pool, num_neutrons \div 10)
            THEN NeutronInit(draws[Rank(InactiveSlots(pool), j)])
            ELSE pool[j]]
    ELSE pool

\* history: the cause recorded for slot j after a Neutron::update() on slot i
CauseAfter(old, new, i, outcome, j) ==
    IF new[j].active THEN "none"
    ELSE IF j = i /\ old[i].active
         THEN CASE outcome = "expired" -> "lifetime"
                []  outcome = "absorb"  -> "absorbed"
                []  outcome = "fission" -> "fission"
                []  OTHER               -> "escaped"
         ELSE cause[j]

InitNeutrons ==
    /\ num_neutrons \in PoolSizes
    /\ \E tn \in Tunings :
          /\ max_lifetime = tn.max_lifetime
          /\ fission_probability = tn.fission_probability
          /\ max_distance = tn.max_distance
    /\ \E draws \in [1..(num_neutrons \div 3) -> InitDraws] :
           neutrons = Construct(num_neutrons, draws)
    /\ fission_events = <<>>
    /\ simulation_time = 0
    /\ upd = 0
    /\ cause = [j \in 1..num_neutrons |-> IF neutrons[j].active THEN "none" ELSE "never"]
    /\ last = [slot |-> 0, outcome |-> "constructed", group |-> 0, k |-> 0, m |-> 0]
    /\ frame = [num |-> 0, events |-> 0, spheres |-> <<0, 0, 0>>,
                lineset |-> <<0, 0>>, lines |-> 0]

\* variant: the clock advances by two timesteps per call
UpdateBeginTwoSteps ==
    /\ upd = 0
    /\ simulation_time = 0 \/ frame.num # 0       \* main(): update(); generateFrame();
    /\ frame' = [num |-> 0, events |-> 0, spheres |-> <<0, 0, 0>>,
                 lineset |-> <<0, 0>>, lines |-> 0]
    /\ simulation_time + timestep <= MaxUpdates * timestep
    /\ simulation_time' = simulation_time + 2 * timestep
    /\ \E draws \in [1..Max(num_neutrons \div 10, 1) -> InitDraws] :
           neutrons' = Respawn(neutrons, simulation_time', timestep, draws)
    /\ cause' = [j \in 1..Len(neutrons) |->
                    IF neutrons'[j].active THEN "none" ELSE cause[j]]
    /\ upd' = IF Len(neutrons) = 0 THEN 0 ELSE 1
    /\ last' = [slot |-> 0, outcome |-> "begin", group |-> 0, k |-> 0, m |-> 0]
    /\ UNCHANGED <<num_neutrons, max_lifetime, fission_probability, max_distance, fission_events>>
    /\ UNCHANGED <<tvars, qvars, kvars, wvars>>

\* NeutronSimulation::update() up to the start of its neutron loop
UpdateBegin ==
    /\ upd = 0
    /\ simulation_time = 0 \/ frame.num # 0       \* main(): update(); generateFrame();
    /\ frame' = [num |-> 0, events |-> 0, spheres |-> <<0, 0, 0>>,
                 lineset |-> <<0, 0>>, lines |-> 0]
    /\ simulation_time + timestep <= MaxUpdates * timestep
    /\ simulation_time' = simulation_time + timestep
    /\ \E draws \in [1..Max(num_neutrons \div 10, 1) -> InitDraws] :
           neutrons' = Respawn(neutrons, simulation_time', timestep, draws)
    /\ cause' = [j \in 1..Len(neutrons) |->
                    IF neutrons'[j].active THEN "none" ELSE cause[j]]
    /\ upd' = IF Len(neutrons) = 0 THEN 0 ELSE 1
    /\ last' = [slot |-> 0, outcome |-> "begin", group |-> 0, k |-> 0, m |-> 0]
    /\ UNCHANGED <<num_neutrons, max_lifetime, fission_probability, max_distance, fission_events>>
    /\ UNCHANGED <<tvars, qvars, kvars, wvars>>

\* one iteration of "for (auto& neutron : neutrons) neutron.update(...)"
UpdateNeutron ==
    /\ upd \in 1..Len(neutrons)
    /\ \E d \in DrawsFor(neutrons[upd], timestep) :
          LET res == NeutronUpdate(neutrons, fission_events, upd, timestep,
                                   simulation_time, d)
          IN /\ neutrons' = res.neutrons
             /\ fission_events' = res.fission_events
             /\ cause' = [j \in 1..Len(neutrons) |->
                             CauseAfter(neutrons, res.neutrons, upd, res.outcome, j)]
             /\ last' = [slot |-> upd, outcome |-> res.outcome,
                          group |-> neutrons[upd].energy_group, k |-> res.k,
                          m |-> IF res.outcome = "fission"
                                THEN Cardinality(InactiveSlots(neutrons)) + 1 ELSE 0]
    /\ upd' = IF upd = Len(neutrons) THEN 0 ELSE upd + 1
    /\ UNCHANGED <<num_neutrons, max_lifetime, fission_probability, max_distance,
                   simulation_time, frame>>
    /\ UNCHANGED <<tvars, qvars, kvars, wvars>>

\* generateFrame(frame_num) after an update(): the fission markers of
\* renderFissionEvents() (age < 5.0), one sphere per active neutron of each
\* group, and renderDirections(): the first loop counts the active neutrons
\* up to MAX_DIRECTIONS = 30, the header is "0 0" or "2 * count, count", the
\* second loop writes one line per active neutron up to 30
GenerateFrame ==
    /\ upd = 0 /\ simulation_time > 0 /\ frame.num = 0
    /\ LET active == {j \in 1..Len(neutrons) : neutrons[j].active}
           active_count == Min(Cardinality(active), 30)
       IN frame' =
            [num |-> simulation_time \div timestep,
             events |-> Cardinality({e \in 1..Len(fission_events) :
                                       simulation_time - fission_events[e].time < 50}),
             spheres |-> [g \in 1..NUM_ENERGY_GROUPS |->
                            Cardinality({j \in active : neutrons[j].energy_group = g - 1})],
             lineset |-> IF active_count = 0 THEN <<0, 0>>
                         ELSE <<active_count * 2, active_count>>,
             lines |-> IF active_count = 0 THEN 0 ELSE Min(Cardinality(active), 30)]
    /\ UNCHANGED <<num_neutrons, max_lifetime, fission_probability, max_distance,
                   neutrons, fission_events, simulation_time, upd, cause, last>>
    /\ UNCHANGED <<tvars, qvars, kvars, wvars>>

(***************************************************************************)
(* static_neutron_scene_generator.cc: NeutronTrack and NeutronTracks       *)
(* lengths and directions in thousandths, draws in thousandths of [0, 1)  *)
(***************************************************************************)
NUM_TRACKS == 2
POINTS_PER_TRACK == 20

\* the draws one generate() call consumes: phi, costheta, the radius, the
\* three jitter draws, the three perturbation draws of every step, and the
\* absorption draws: d at step k, 0.95 (no region absorbs) at the others
TrackInputs ==
    [phi : {0, 250}, costheta : {0, 500}, r : RadiusDraws,
     jitter : {<<500, 500, 500>>, <<0, 999, 0>>},
     perturb : {<<500, 500, 500>>, <<0, 0, 999>>},
     k : {1, 10, 19}, d : {50, 600, 950}]

\* dir /= length, unguarded: a zero length gives 0/0
TrackNormalize(d) ==
    IF Length(d) = 0 THEN [v |-> d, nan |-> TRUE]
    ELSE [v |-> << DivTrunc(d[1] * 1000, Length(d)), DivTrunc(d[2] * 1000, Length(d)),
                   DivTrunc(d[3] * 1000, Length(d)) >>, nan |-> FALSE]

\* variant: the point of absorption is left inactive
AbsorbedAtInactive(points, i) ==
    [j \in DOMAIN points |-> IF j >= i + 1 THEN [points[j] EXCEPT !.active = FALSE]
                             ELSE points[j]]

\* lines 199-205: points[i] is active, every later point inactive
AbsorbedAt(points, i) ==
    [j \in DOMAIN points |-> IF j = i + 1 THEN [points[j] EXCEPT !.active = TRUE]
                             ELSE IF j > i + 1 THEN [points[j] EXCEPT !.active = FALSE]
                             ELSE points[j]]

RECURSIVE TrackLoop(_, _, _, _, _)
\* lines 141-210: the loop from point i on (points[i] of the source is
\* points[i + 1] here); st is the pos, dir and NaN state of the locals
TrackLoop(points, st, i, per, draws) ==
    IF i >= POINTS_PER_TRACK THEN points
    ELSE IF ~points[i].active
    THEN TrackLoop([points EXCEPT ![i + 1].active = FALSE], st, i + 1, per, draws)
    ELSE LET perturb == << DivTrunc((per[1] * 2 - 1000) * 400, 1000),
                           DivTrunc((per[2] * 2 - 1000) * 400, 1000),
                           DivTrunc((per[3] * 2 - 1000) * 400, 1000) >>
             n    == TrackNormalize(Add(st.dir, perturb))
             nan  == st.nan \/ n.nan
             step == 15000 \div POINTS_PER_TRACK
             pos  == << st.pos[1] + DivTrunc(n.v[1] * step, 1000),
                        st.pos[2] + DivTrunc(n.v[2] * step, 1000),
                        st.pos[3] + DivTrunc(n.v[3] * step, 1000) >>
             dist == Length(pos)
             \* a NaN distance fails both comparisons
             region == IF ~nan /\ dist < 3000 THEN [color |-> "core", absorption |-> 100]
                       ELSE IF ~nan /\ dist < 6000
                            THEN [color |-> "reflector", absorption |-> 400]
                       ELSE [color |-> "outer", absorption |-> 800]
             absorbed == draws[i] < region.absorption
             placed == [points EXCEPT ![i + 1] =
                          [position |-> pos, color |-> region.color, nan |-> nan,
                           active |-> points[i + 1].active, absorbed |-> absorbed]]
         IN IF absorbed THEN AbsorbedAt(placed, i)
            ELSE TrackLoop([placed EXCEPT ![i + 1].active = TRUE],
                           [pos |-> pos, dir |-> n.v, nan |-> nan], i + 1, per, draws)

\* NeutronTrack::generate() on a track whose points are `points`
Generate(points, in) ==
    LET costheta == 2 * in.costheta - 1000
        sintheta == ISqrt(1000000 - costheta * costheta)
        phi      == (in.phi * 360) \div 1000
        r        == (500 * Cbrt(in.r)) \div 1000
        unit     == << DivTrunc(sintheta * CosDeg(phi), 1000),
                       DivTrunc(sintheta * SinDeg(phi), 1000), costheta >>
        pos      == << DivTrunc(r * unit[1], 1000), DivTrunc(r * unit[2], 1000),
                       DivTrunc(r * unit[3], 1000) >>
        n        == TrackNormalize(<< unit[1] + DivTrunc((in.jitter[1] - 500) * 500, 1000),
                                      unit[2] + DivTrunc((in.jitter[2] - 500) * 500, 1000),
                                      unit[3] + DivTrunc((in.jitter[3] - 500) * 500, 1000) >>)
        dist     == Length(pos)
        first    == [position |-> pos,
                     color |-> IF dist < 3000 THEN "core"
                               ELSE IF dist < 6000 THEN "reflector" ELSE "outer",
                     nan |-> FALSE, active |-> TRUE, absorbed |-> FALSE]
    IN TrackLoop([points EXCEPT ![1] = first], [pos |-> pos, dir |-> n.v, nan |-> n.nan], 1,
                 in.perturb, [i \in 1..(POINTS_PER_TRACK - 1) |-> IF i = in.k THEN in.d ELSE 950])

RECURSIVE TrackTubes(_, _, _, _)
\* lines 360-405: the Tube lines of track t from point j on; prev is the
\* point held in prev_point, 0 while has_prev is false
TrackTubes(points, t, j, prev) ==
    IF j > Len(points) THEN <<>>
    ELSE IF points[j].active
    THEN (IF prev # 0
          THEN << [track |-> t, from |-> prev, to |-> j, start |-> points[prev].position,
                   end |-> points[j].position, color |-> points[j].color] >>
          ELSE <<>>) \o TrackTubes(points, t, j + 1, j)
    ELSE TrackTubes(points, t, j + 1, 0)

\* NeutronTracks() after tracks.resize(NUM_TRACKS): value-initialised points
\* that NeutronTrack() marked inactive
InitTracks ==
    /\ tracks = [t \in 1..NUM_TRACKS |->
                   [j \in 1..POINTS_PER_TRACK |->
                      [position |-> <<0, 0, 0>>, color |-> "none", nan |-> FALSE,
                       active |-> FALSE, absorbed |-> FALSE]]]
    /\ scene = [generated |-> 0, written |-> 0, out |-> <<>>]

\* NeutronTracks(): one iteration of the loop calling track.generate()
TrackGenerate ==
    /\ scene.generated < NUM_TRACKS
    /\ \E in \in TrackInputs :
          tracks' = [tracks EXCEPT ![scene.generated + 1] = Generate(@, in)]
    /\ scene' = [scene EXCEPT !.generated = @ + 1]
    /\ UNCHANGED <<nvars, tvars, qvars, wvars>>

\* generateRDScene(): one iteration of the loop writing the tubes of a track
SceneTrack ==
    /\ scene.generated = NUM_TRACKS
    /\ scene.written < NUM_TRACKS
    /\ scene' = [scene EXCEPT !.written = @ + 1,
                              !.out = @ \o TrackTubes(tracks[scene.written + 1],
                                                      scene.written + 1, 1, 0)]
    /\ UNCHANGED <<tracks, nvars, tvars, qvars, wvars>>

-----------------------------------------------------------------------------
(***************************************************************************)
(* NeutronSimViewer (js/scenes/fractal-terrain.js): the play/pause button, *)
(* the mode selector, the reset button and the page's visibilitychange     *)
(* handler.  JavaScript values are kept as "true", "false", "undefined".   *)
(***************************************************************************)
MaxFrames == 2      \* frames of the animation loop followed per run
MaxPending == 1     \* mode-change timeouts that may be pending at once

\* !document.hidden && viewer._wasActiveBeforeHidden
NotHiddenAnd(h, was) == IF h THEN "false" ELSE was

\* NeutronSimViewer(): lines 637-706; DYNAMIC_MODE is false and
\* _wasActiveBeforeHidden is not assigned
InitViewer ==
    /\ viewer = [dynamicMode |-> FALSE, animationActive |-> "false",
                 wasActiveBeforeHidden |-> "undefined", playText |-> "Start Simulation",
                 simulationTime |-> 0, pending |-> 0,
                 beforeHidden |-> "false", clicksOnly |-> FALSE]
    /\ hidden = FALSE

\* lines 990-1001: click on the play/pause button
ClickPlay ==
    /\ ~hidden /\ viewer.dynamicMode
    /\ viewer' = IF viewer.animationActive = "true"
                 THEN [viewer EXCEPT !.animationActive = "false",
                                     !.playText = "Start Simulation"]
                 ELSE [viewer EXCEPT !.animationActive = "true",
                                     !.playText = "Pause Simulation",
                                     !.wasActiveBeforeHidden = "true"]
    /\ UNCHANGED hidden
    /\ UNCHANGED <<nvars, tvars, qvars, kvars>>

\* lines 842-887: the mode selector changes; the regeneration is deferred
ChangeMode ==
    /\ ~hidden /\ viewer.pending < MaxPending
    /\ viewer' = [viewer EXCEPT !.dynamicMode = ~@,
                                !.animationActive = "false",
                                !.simulationTime = 0,
                                !.pending = @ + 1,
                                !.wasActiveBeforeHidden = "false",
                                !.clicksOnly = FALSE]
    /\ UNCHANGED hidden
    /\ UNCHANGED <<nvars, tvars, qvars, kvars>>

\* lines 1304-1331: setupDynamicSimulation()
SetupDynamicSimulation(v) ==
    [v EXCEPT !.simulationTime = 0, !.wasActiveBeforeHidden = "false"]

\* lines 865-883: the timeout of the mode change runs generateTracks() and
\* resets the button text
ModeTimeout ==
    /\ viewer.pending > 0
    /\ viewer' = [(IF viewer.dynamicMode THEN SetupDynamicSimulation(viewer) ELSE viewer)
                    EXCEPT !.pending = @ - 1,
                           !.playText = "Start Simulation",
                           !.clicksOnly = /\ viewer.dynamicMode /\ ~hidden
                                          /\ viewer.pending = 1
                                          /\ viewer.animationActive = "false"]
    /\ UNCHANGED hidden
    /\ UNCHANGED <<nvars, tvars, qvars, kvars>>

\* lines 1006-1009 and 1830-1860: click on the reset button
ClickReset ==
    /\ ~hidden /\ viewer.dynamicMode
    /\ viewer' = [SetupDynamicSimulation(viewer) EXCEPT !.clicksOnly = FALSE]
    /\ viewer' # viewer
    /\ UNCHANGED hidden
    /\ UNCHANGED <<nvars, tvars, qvars, kvars>>

\* lines 696-703 and 1592-1597: a frame of the animation loop that advances
\* the simulation
Animate ==
    /\ viewer.animationActive = "true" /\ viewer.dynamicMode
    /\ viewer.simulationTime < MaxFrames
    /\ viewer' = [viewer EXCEPT !.simulationTime = @ + 1]
    /\ UNCHANGED hidden
    /\ UNCHANGED <<nvars, tvars, qvars, kvars>>

\* lines 1936-1948: the page is hidden or shown and the handler runs
VisibilityChange ==
    /\ hidden' = ~hidden
    /\ viewer' = [(IF viewer.dynamicMode
                   THEN [viewer EXCEPT !.animationActive =
                            NotHiddenAnd(hidden', viewer.wasActiveBeforeHidden)]
                   ELSE viewer)
                    EXCEPT !.beforeHidden = IF hidden' THEN viewer.animationActive ELSE @]
    /\ UNCHANGED <<nvars, tvars, qvars, kvars>>

NextViewer ==
    ClickPlay \/ ChangeMode \/ ModeTimeout \/ ClickReset \/ Animate \/ VisibilityChange

Next == UpdateBegin \/ UpdateNeutron \/ GenerateFrame

\* the dynamic neutron simulation after construction; no terrain object
\* exists and no superquadric call runs
Init == InitNeutrons /\ InitTerrain /\ IdleSq /\ InitTracks /\ InitViewer
Spec == Init /\ [][Next]_vars

IdleNeutrons ==
    /\ num_neutrons = 0
    /\ max_lifetime = 1000
    /\ fission_probability = 150
    /\ max_distance = 1000
    /\ neutrons = <<>>
    /\ fission_events = <<>>
    /\ simulation_time = 0
    /\ upd = 0
    /\ cause = <<>>
    /\ last = [slot |-> 0, outcome |-> "constructed", group |-> 0, k |-> 0, m |-> 0]
    /\ frame = [num |-> 0, events |-> 0, spheres |-> <<0, 0, 0>>,
                lineset |-> <<0, 0>>, lines |-> 0]

NextTerrain == ConstructTerrain \/ Regenerate \/ GetColor \/ ExportToRD

\* the terrain generator
StartTerrain == IdleNeutrons /\ InitTerrain /\ IdleSq /\ InitTracks /\ InitViewer
SpecTerrain == StartTerrain /\ [][NextTerrain]_vars

NextSq == SqSphere \/ SqTorus \/ SqEvalPoint \/ SqAccumQuad \/ SqAveragePoint
          \/ SqEmitQuad \/ SqReturn

\* the superquadric evaluator
StartSq == IdleNeutrons /\ InitTerrain /\ InitSq /\ InitTracks /\ InitViewer
SpecSq == StartSq /\ [][NextSq]_vars

\* lines 268-271 on their own: some neutron of a pool that is not modelled
\* fissions during the running update() and records its event
FissionAt ==
    /\ simulation_time > 0 /\ frame.num = 0
    \* two positions taken in turn, so that neighbouring events differ
    /\ fission_events' = RecordFission(fission_events,
                              [position |-> <<(Len(fission_events) % 2) * 100, 0, 0>>,
                               time |-> simulation_time])
    /\ UNCHANGED <<num_neutrons, max_lifetime, fission_probability, max_distance,
                   neutrons, simulation_time, upd, cause, last, frame>>
    /\ UNCHANGED <<tvars, qvars, kvars, wvars>>

NextTrack == TrackGenerate \/ SceneTrack

\* the static track generator
StartTrack == IdleNeutrons /\ InitTerrain /\ IdleSq /\ InitTracks /\ InitViewer
SpecTrack == StartTrack /\ [][NextTrack]_vars

\* the event deque under any number of fissions per update()
SpecEvents == StartTrack /\ [][UpdateBegin \/ FissionAt \/ GenerateFrame]_vars

\* the viewer of the portfolio page
StartViewer == IdleNeutrons /\ InitTerrain /\ IdleSq /\ InitTracks /\ InitViewer
SpecViewer == StartViewer /\ [][NextViewer]_vars
-----------------------------------------------------------------------------
(***************************************************************************)
(* Properties of the dynamic neutron simulation (checked under Spec)       *)
(***************************************************************************)

\* C1: after construction and after any sequence of update() calls, with
\* respawns and fissions, the pool holds exactly num_neutrons slots.
C1_PoolSize == Len(neutrons) = num_neutrons

\* reached: a full update in which a fission spawned fewer children than
\* drawn, with a periodic respawn behind it
C1_Witness ==
    /\ num_neutrons > 0
    /\ simulation_time >= RESPAWN_PERIOD
    /\ last.outcome = "fission" /\ last.m < last.k
    /\ Len(neutrons) = num_neutrons

\* the causes the specification lists for an inactive slot j
HasCause(j) ==
    \/ neutrons[j].lifetime > max_lifetime
    \/ Dist2(neutrons[j].position) > max_distance * max_distance
    \/ cause[j] \in {"fission", "absorbed"}

\* C2 as stated: in every reachable state, from construction onward, every
\* inactive slot has lifetime > max_lifetime, or lies beyond max_distance, or
\* was the source of a recorded fission, or had absorption drawn.
C2_Original ==
    \A j \in 1..Len(neutrons) : ~neutrons[j].active => HasCause(j)

\* C2 as it holds: every inactive slot that has been activated at least once
\* since construction has one of the four causes.  (The slots the constructor
\* leaves as default neutrons are inactive with lifetime 0 at the origin.)
C2_InactiveHasCause ==
    \A j \in 1..Len(neutrons) :
        ~neutrons[j].active /\ cause[j] # "never" => HasCause(j)

\* reached: slots deactivated by expiry and by escape, next to a slot that was
\* never activated
C2_Witness ==
    /\ \E j \in 1..Len(neutrons) : ~neutrons[j].active /\ cause[j] = "escaped"
    /\ \E j \in 1..Len(neutrons) : ~neutrons[j].active /\ cause[j] = "lifetime"
    /\ \E j \in 1..Len(neutrons) : ~neutrons[j].active /\ cause[j] = "never"

\* slot j is reinitialised (init or initFromFission) by the step: every
\* update of an active neutron adds dt > 0 to its lifetime
Reinitialised(j) ==
    /\ neutrons'[j].active /\ neutrons'[j].lifetime = 0
    /\ neutrons'[j] # neutrons[j]

\* C3: unless a step reinitialises the slot, the slot's energy_group index
\* does not decrease, stays within 0..2, and a Thermal neutron stays Thermal.
C3_GroupNeverDecreases ==
    [][\A j \in 1..Len(neutrons) :
          \/ Reinitialised(j)
          \/ /\ neutrons'[j].energy_group >= neutrons[j].energy_group
             /\ neutrons'[j].energy_group \in 0..(NUM_ENERGY_GROUPS - 1)
             /\ neutrons[j].energy_group = 2 => neutrons'[j].energy_group = 2]_vars

\* reached: a neutron that was Epithermal after its first update has scattered
\* in its second and is Thermal
C3_Witness ==
    /\ last.outcome = "scatter" /\ last.group = 1
    /\ neutrons[last.slot].energy_group = 2
    /\ neutrons[last.slot].lifetime >= 2 * timestep

\* C4: a fission in Neutron::update() on slot upd reinitialises exactly
\* min(k, m) slots, k in {2, 3} the drawn child count and m the number of
\* inactive slots when the spawning loop runs (the fissioning slot, which the
\* branch deactivates first, is one of them); each reinitialised slot is
\* active, Fast, has lifetime 0 and the fissioning neutron's position; every
\* other slot is unchanged (the fissioning slot, if not reused, is only aged
\* and deactivated) and the pool keeps its length.
C4_FissionSpawn ==
    [][last'.outcome = "fission" /\ last'.slot = upd /\ upd >= 1 =>
        LET free == InactiveSlots(neutrons) \cup {upd}
            made == {j \in free : j <= Len(neutrons') /\ neutrons'[j].active}
        IN /\ Len(neutrons') = Len(neutrons)
           /\ last'.k \in {2, 3}
           /\ Cardinality(made) = Min(last'.k, Cardinality(free))
           /\ \A j \in made :
                 /\ neutrons'[j].energy_group = 0
                 /\ neutrons'[j].lifetime = 0
                 /\ neutrons'[j].position = neutrons[upd].position
           /\ \A j \in (1..Len(neutrons)) \ (made \cup {upd}) : neutrons'[j] = neutrons[j]
           /\ upd \notin made =>
                 neutrons'[upd] = [neutrons[upd] EXCEPT
                                     !.active = FALSE, !.lifetime = @ + timestep]]_vars

\* reached: a fission that found more inactive slots than children and
\* reused the fissioning slot itself for the first child
C4_Witness ==
    /\ last.outcome = "fission" /\ last.m > last.k
    /\ neutrons[last.slot].active /\ neutrons[last.slot].lifetime = 0
-----------------------------------------------------------------------------
(***************************************************************************)
(* Properties of the terrain generator (checked under SpecTerrain)         *)
(***************************************************************************)
SameParameters(t, u) ==
    t.n = u.n /\ t.D = u.D /\ t.seed = u.seed /\ t.sigma = u.sigma

\* the cells the draws of the last generateTerrain() went to, in order
DrawCells(t) == [k \in 1..Len(t.trace.log) |-> t.trace.log[k].cell]

\* C5: two FractalTerrain objects with the same (n, D, seed, sigma) have
\* consumed the same Gaussian draws for the same cells in the same order and
\* hold identical grids; the number and the target cells of the draws are
\* the same for any two objects with the same n.
C5_Deterministic ==
    \A i, j \in 1..Len(terrains) :
        /\ SameParameters(terrains[i], terrains[j]) =>
              /\ terrains[i].grid = terrains[j].grid
              /\ terrains[i].trace.log = terrains[j].trace.log
        /\ terrains[i].n = terrains[j].n =>
              DrawCells(terrains[i]) = DrawCells(terrains[j])

\* reached: two objects with the same parameters, one of them generated a
\* second time, with a grid that is not flat
C5_Witness ==
    /\ Len(terrains) = 2 /\ regens = 1
    /\ SameParameters(terrains[1], terrains[2])
    /\ terrains[1].n = 2
    /\ \E c \in DOMAIN terrains[1].grid : terrains[1].grid[c] # 0

\* C6: after generateTerrain() the grid has side 2^n + 1 and every cell has
\* been assigned by the corner seeding, a diamond step or a square step.
C6_EveryCellAssigned ==
    \A i \in 1..Len(terrains) :
        LET t == terrains[i]
        IN /\ t.n >= 1
           /\ DOMAIN t.grid = (0..Pow2(t.n)) \X (0..Pow2(t.n))
           /\ Cardinality(DOMAIN t.grid) = (Pow2(t.n) + 1) * (Pow2(t.n) + 1)
           /\ t.trace.assigned = DOMAIN t.grid

\* reached: a 5 x 5 grid whose interior edge midpoints are assigned
C6_Witness ==
    \E i \in 1..Len(terrains) :
        /\ terrains[i].n = 2
        /\ {<<1, 2>>, <<3, 2>>, <<2, 1>>, <<2, 3>>} \subseteq terrains[i].trace.assigned

\* C7 as stated: the minimum and maximum getColor() normalises with are those
\* of the grid of the terrain being coloured, whatever was coloured or
\* regenerated before.
C7_RangeOfOwnGrid ==
    lastColor.obj # 0 =>
        /\ lastColor.lo = GridMin(terrains[lastColor.obj].grid)
        /\ lastColor.hi = GridMax(terrains[lastColor.obj].grid)

-----------------------------------------------------------------------------
(***************************************************************************)
(* Properties of the superquadric evaluator (checked under SpecSq)         *)
(***************************************************************************)
InvalidSphere(a) ==
    a.radius <= 0 \/ a.thetamax <= 0 \/ a.thetamax > 360 \/ a.zmin >= a.zmax
InvalidTorus(a) ==
    \/ a.radius1 <= 0 \/ a.radius2 <= 0
    \/ a.thetamax <= 0 \/ a.thetamax > 360 \/ a.phimin >= a.phimax
InvalidCall ==
    IF sq.fn = "sphere" THEN InvalidSphere(sq.args) ELSE InvalidTorus(sq.args)

\* C8: a call with an invalid argument returns -1 at once and passes nothing
\* to poly_pipeline; every other call has return code 0.
C8_Validation ==
    sq.fn # "none" =>
        IF InvalidCall
        THEN sq.pc = "done" /\ sq.ret = -1 /\ pipeline = <<>>
        ELSE sq.ret = 0 /\ sq.pc \in {"eval", "accum", "average", "emit", "done"}

\* reached: rd_sqsphere has rejected zmin = zmax with otherwise valid arguments
C8_Witness ==
    /\ sq.fn = "sphere" /\ sq.pc = "done" /\ sq.ret = -1
    /\ sq.args.zmin = sq.args.zmax
    /\ sq.args.radius > 0 /\ sq.args.thetamax = 360

\* C9 as stated: in a call that passed validation the zmin and zmax the
\* sphere takes asin of lie in [-radius, radius] and the phimin and phimax
\* the torus evaluates over lie in [-180, 180].
C9_RangesClamped ==
    sq.fn # "none" /\ sq.ret = 0 =>
        IF sq.fn = "sphere"
        THEN /\ -sq.args.radius <= sq.zmin /\ sq.zmin <= sq.args.radius
             /\ -sq.args.radius <= sq.zmax /\ sq.zmax <= sq.args.radius
        ELSE /\ -180 <= sq.phimin /\ sq.phimin <= 180
             /\ -180 <= sq.phimax /\ sq.phimax <= 180

\* C10: in a call that passed validation the grid has (n_divisions + 1)^2
\* points, and once a point has been passed to poly_pipeline every grid
\* point has had its position written and its averaged normal stored.
C10_GridBeforeEmit ==
    sq.fn # "none" /\ sq.ret = 0 =>
        /\ DOMAIN sq.grid = Cells(n_divisions)
        /\ Cardinality(DOMAIN sq.grid) = (n_divisions + 1) * (n_divisions + 1)
        /\ pipeline # <<>> =>
              /\ sq.written = Cells(n_divisions)
              /\ sq.normalled = Cells(n_divisions)

\* reached: a torus call on a 3 x 3 grid is halfway through its rendering loops
C10_Witness ==
    /\ sq.fn = "torus" /\ sq.pc = "emit" /\ n_divisions = 2
    /\ Len(pipeline) = 8

\* the number of quads the rendering loops have finished
QuadsEmitted ==
    CASE sq.pc = "emit" -> sq.ui * n_divisions + sq.vi
      [] sq.pc = "done" -> n_divisions * n_divisions
      [] OTHER          -> 0

\* C11: a call that passed validation emits n_divisions^2 quads, the q-th
\* one for (ui, vi) = (q div n_divisions, q mod n_divisions); each quad is the
\* grid entries (ui,vi), (ui+1,vi), (ui+1,vi+1), (ui,vi+1) in that order,
\* the first three with MOVE and the last with DRAW.
C11_QuadOrder ==
    sq.fn # "none" /\ sq.ret = 0 =>
        /\ Len(pipeline) = 4 * QuadsEmitted
        /\ \A q \in 0..(QuadsEmitted - 1) :
              LET ui == q \div n_divisions
                  vi == q % n_divisions
                  at(k) == pipeline[4 * q + k]
              IN /\ <<at(1).cell, at(2).cell, at(3).cell, at(4).cell>>
                      = << <<ui, vi>>, <<ui + 1, vi>>, <<ui + 1, vi + 1>>, <<ui, vi + 1>> >>
                 /\ <<at(1).flag, at(2).flag, at(3).flag, at(4).flag>>
                      = <<"MOVE", "MOVE", "MOVE", "DRAW">>
                 /\ \A k \in 1..4 : at(k).pt = sq.grid[at(k).cell]

\* reached: a sphere call on a 3 x 3 grid has returned 0 after its four quads
C11_Witness ==
    /\ sq.fn = "sphere" /\ sq.pc = "done" /\ sq.ret = 0
    /\ n_divisions = 2 /\ Len(pipeline) = 16 /\ ~sq.nan

\* C12 as stated, with the tolerance widened to the 1e-2 the fixed-point
\* grid resolves: after the averaging loops every vertex with a positive
\* accumulation count stores a normal of unit length.
C12_UnitNormals ==
    sq.fn # "none" /\ sq.ret = 0 /\ sq.pc \in {"emit", "done"} /\ ~sq.nan =>
        \A c \in Cells(n_divisions) :
            sq.counts[c] > 0 =>
                /\ Length(sq.grid[c].normal) >= 990
                /\ Length(sq.grid[c].normal) <= 1010

\* C13: in every generated track point 0 is active, the active points are a
\* prefix, the point at which absorption was drawn is active and every
\* point after it is inactive; every Tube written joins two consecutive
\* active points of one track.
C13_ActivePrefix ==
    /\ \A t \in 1..scene.generated :
          /\ tracks[t][1].active
          /\ \A j \in 2..POINTS_PER_TRACK : tracks[t][j].active => tracks[t][j - 1].active
          /\ \A j \in 1..POINTS_PER_TRACK :
                tracks[t][j].absorbed =>
                    /\ tracks[t][j].active
                    /\ \A m \in (j + 1)..POINTS_PER_TRACK : ~tracks[t][m].active
    /\ \A q \in 1..Len(scene.out) :
          /\ scene.out[q].track \in 1..scene.written
          /\ scene.out[q].to = scene.out[q].from + 1
          /\ tracks[scene.out[q].track][scene.out[q].from].active
          /\ tracks[scene.out[q].track][scene.out[q].to].active

\* reached: the scene is written; track 1 was absorbed at its point 10 and
\* has nine tubes, track 2 ran to its last point
C13_Witness ==
    /\ scene.written = NUM_TRACKS
    /\ tracks[1][11].absorbed /\ tracks[1][11].active /\ ~tracks[1][12].active
    /\ tracks[2][POINTS_PER_TRACK].active
    /\ \E q \in 1..Len(scene.out) : scene.out[q].track = 1 /\ scene.out[q].to = 11

\* C15: fission_events never holds more than 20 events, its times never
\* decrease from front to back, and a recording appends the new event at
\* the back, removing exactly the front event when 20 were held.
C15_BoundedFifo ==
    /\ [](/\ Len(fission_events) <= MAX_FISSION_EVENTS
          /\ \A j \in 2..Len(fission_events) :
                fission_events[j - 1].time <= fission_events[j].time)
    /\ [][fission_events' # fission_events =>
            LET e == fission_events'[Len(fission_events')]
            IN /\ e.time = simulation_time
               /\ fission_events' =
                    IF Len(fission_events) = MAX_FISSION_EVENTS
                    THEN Append(Tail(fission_events), e)
                    ELSE Append(fission_events, e)]_vars

\* reached: 20 events are held; all but one of the events of the first
\* update() have been removed and the others are of the second update()
C15_Witness ==
    /\ Len(fission_events) = MAX_FISSION_EVENTS
    /\ fission_events[1].time = timestep
    /\ fission_events[2].time = 2 * timestep

\* C16: simulation_time is 0 after construction and changes only when
\* update() begins, by exactly timestep, so it strictly increases.
C16_ClockSteps ==
    /\ simulation_time = 0
    /\ [][simulation_time' # simulation_time =>
            /\ upd = 0 /\ last'.outcome = "begin"
            /\ simulation_time' = simulation_time + timestep
            /\ simulation_time' > simulation_time]_vars

\* reached: two update() calls have returned
C16_Witness ==
    /\ simulation_time = 2 * timestep
    /\ upd = 0 /\ num_neutrons > 0

\* C17: exportToRD() on a size x size grid declares size^2 vertices and
\* 2 (size-1)^2 faces and writes exactly that many vertex and face records;
\* every face index is in [0, size^2); the two triangles of a cell share
\* the edge (v1, v2) and together use exactly the cell's four corners.
C17_PolySet ==
    rdfile.obj # 0 =>
        LET size == Pow2(terrains[rdfile.obj].n) + 1
        IN /\ rdfile.declared = <<size * size, 2 * (size - 1) * (size - 1)>>
           /\ Len(rdfile.vertices) = rdfile.declared[1]
           /\ Len(rdfile.faces) = rdfile.declared[2]
           /\ \A f \in 1..Len(rdfile.faces) : \A k \in 1..3 :
                 rdfile.faces[f][k] >= 0 /\ rdfile.faces[f][k] < size * size
           /\ \A y \in 0..(size - 2) : \A x \in 0..(size - 2) :
                 LET c  == y * (size - 1) + x
                     t1 == rdfile.faces[2 * c + 1]
                     t2 == rdfile.faces[2 * c + 2]
                 IN /\ t1[2] = t2[1] /\ t1[3] = t2[3]
                    /\ {t1[1], t1[2], t1[3], t2[1], t2[2], t2[3]}
                         = {yy * size + xx : yy \in {y, y + 1}, xx \in {x, x + 1}}
                    /\ Cardinality({t1[1], t1[2], t1[3], t2[1], t2[2], t2[3]}) = 4

\* reached: a 5 x 5 grid has been exported as 25 vertices and 32 faces
C17_Witness ==
    /\ rdfile.obj # 0
    /\ rdfile.declared = <<25, 32>>
    /\ Len(rdfile.vertices) = 25 /\ Len(rdfile.faces) = 32

\* the colour ladder over every normalised height in [0, 1] (thousandths)
LadderIsBlendedBands ==
    LET T == <<200, 300, 400, 600, 800>>
        C == << <<0, 0, 500>>, <<0, 0, 800>>, <<760, 700, 500>>, <<0, 600, 0>>,
                <<500, 350, 50>>, <<1000, 1000, 1000>> >>
        band(h) == 1 + Cardinality({k \in 1..5 : h >= T[k]})
        inZone(h, k) == h >= T[k] - 30 /\ h < T[k] + 30
    IN \A h \in 0..1000 :
          /\ (\A k \in 1..5 : ~inZone(h, k)) => BandColor(h) = C[band(h)]
          /\ \A k \in 1..5 : inZone(h, k) =>
                \A i \in 1..3 :
                   BandColor(h)[i] =
                      C[k][i] + DivTrunc((h - (T[k] - 30)) * (C[k + 1][i] - C[k][i]), 60)
          /\ \A k \in 1..5 : h = T[k] - 30 => BandColor(h) = C[k]
          /\ \A k \in 1..5 : h = T[k] + 30 => BandColor(h) = C[k + 1]
          /\ h < 1000 => \A i \in 1..3 : Abs(BandColor(h + 1)[i] - BandColor(h)[i]) <= 17

\* C18: for every normalised height in [0, 1] getColor() gives the band's
\* colour outside the blend zones and the linear blend of the two
\* neighbouring colours inside [T - 0.03, T + 0.03); the blend is the lower
\* colour at T - 0.03 and within one blend step of the upper colour just
\* below T + 0.03, so the colour never jumps; getColor() returns this
\* colour for the height it is given.
C18_Bands ==
    /\ LadderIsBlendedBands
    /\ lastColor.obj # 0 /\ lastColor.hi # lastColor.lo =>
          lastColor.color =
             BandColor(DivTrunc((lastColor.height - lastColor.lo) * 1000,
                                lastColor.hi - lastColor.lo))

\* reached: getColor() returned a blend, for a height inside a blend zone
C18_Witness ==
    /\ lastColor.obj # 0 /\ lastColor.hi # lastColor.lo
    /\ LET nh == DivTrunc((lastColor.height - lastColor.lo) * 1000, lastColor.hi - lastColor.lo)
       IN \E T \in {200, 300, 400, 600, 800} : nh >= T - 30 /\ nh < T + 30

\* C19: with num_neutrons = 0 the pool is empty in every state, no
\* Neutron::update() runs on any slot, no fission event is recorded, and
\* every frame written has no sphere and a direction LineSet of counts 0 0
\* without lines.
C19_EmptyPool ==
    num_neutrons = 0 =>
        /\ neutrons = <<>> /\ fission_events = <<>>
        /\ upd = 0 /\ last.slot = 0
        /\ frame.num # 0 =>
              /\ frame.lineset = <<0, 0>> /\ frame.lines = 0
              /\ frame.spheres = <<0, 0, 0>> /\ frame.events = 0

\* reached: an empty simulation after two update() calls and its second frame
C19_Witness ==
    /\ num_neutrons = 0 /\ last.outcome = "begin"
    /\ simulation_time = 2 * timestep /\ frame.num = 2

\* the writes of generateTerrain(), for every depth: each cell is the target
\* of exactly one seed or average, and every other write is an addition
WritesAreOneAssignmentPlusAdds ==
    \A n \in 1..MaxN :
        LET ops == TerrainOpsTable[n]
            structural == {k \in 1..Len(ops) : ops[k].kind \in {"seed", "avg"}}
        IN /\ \A c \in (0..Pow2(n)) \X (0..Pow2(n)) :
                 Cardinality({k \in structural : ops[k].cell = c}) = 1
           /\ \A k \in (1..Len(ops)) \ structural :
                 \/ ops[k].kind = "scale"
                 \/ ops[k].kind = "add" /\ ops[k].reads = <<ops[k].cell>>

\* C20: in generateTerrain() every cell, the corners included, receives
\* exactly one structural assignment (corner seed or f3/f4 average); every
\* other write adds delta * Gauss() to the cell's value.
C20_OneStructuralWrite ==
    /\ WritesAreOneAssignmentPlusAdds
    /\ \A i \in 1..Len(terrains) :
          /\ terrains[i].trace.twice = {}
          /\ terrains[i].trace.assigned = DOMAIN terrains[i].grid
          /\ Len(terrains[i].trace.log) > Cardinality(DOMAIN terrains[i].grid)

\* reached: a 5 x 5 grid generated twice on one object, with its 25 cells
\* assigned and perturbed
C20_Witness ==
    /\ regens > 0
    /\ \E i \in 1..Len(terrains) :
          /\ terrains[i].n = 2
          /\ Cardinality(terrains[i].trace.assigned) = 25
          /\ Len(terrains[i].trace.log) > 25

\* C21 as stated: when Neutron::update() returns after the neutron of a slot
\* has fissioned, that slot is inactive.
C21_FissionedSlotInactive ==
    [][upd >= 1 /\ last'.slot = upd /\ last'.outcome = "fission" =>
          ~neutrons'[upd].active]_vars

\* C22 as stated: in one Neutron::update() call on an active neutron the
\* position changes only when no interaction was drawn; a neutron that
\* scatters, is absorbed or fissions keeps the position it had.
C22_MoveOnlyWithoutInteraction ==
    [][upd >= 1 /\ last'.slot = upd /\ last'.outcome \in {"scatter", "absorb", "fission"} =>
          neutrons'[upd].position = neutrons[upd].position]_vars

\* the slot updated last still holds the neutron it held before the call
\* (a fission may have handed the slot to one of the children, see C21)
SameNeutron == last'.outcome # "fission" \/ ~neutrons'[upd].active

\* C23: Neutron::update() on an inactive neutron changes nothing; on an
\* active neutron it adds exactly dt to the lifetime; if the new lifetime
\* exceeds max_lifetime the neutron is deactivated with position, direction
\* and energy group unchanged, whatever the generator would draw, no event
\* is recorded and no other slot is modified; otherwise it does not expire.
C23_AgeAndExpire ==
    [][upd >= 1 /\ last'.slot = upd =>
          LET me == neutrons[upd]
          IN /\ ~me.active =>
                   /\ last'.outcome = "inactive"
                   /\ neutrons' = neutrons /\ fission_events' = fission_events
             /\ me.active =>
                   /\ last'.outcome # "inactive"
                   /\ SameNeutron => neutrons'[upd].lifetime = me.lifetime + timestep
             /\ me.active /\ me.lifetime + timestep > max_lifetime =>
                   /\ last'.outcome = "expired"
                   /\ neutrons' = [neutrons EXCEPT
                                     ![upd] = [me EXCEPT !.active = FALSE,
                                                         !.lifetime = @ + timestep]]
                   /\ fission_events' = fission_events
                   /\ \A d \in UpdDraws :
                         NeutronUpdate(neutrons, fission_events, upd, timestep,
                                       simulation_time, d).neutrons = neutrons'
             /\ me.active /\ me.lifetime + timestep <= max_lifetime =>
                   last'.outcome # "expired"]_vars

\* reached: a neutron has expired at lifetime 10.0 > 5.0 while another slot
\* of the pool is active
C23_Witness ==
    /\ last.outcome = "expired"
    /\ ~neutrons[last.slot].active
    /\ neutrons[last.slot].lifetime > max_lifetime
    /\ \E j \in 1..Len(neutrons) : neutrons[j].active

\* the outcome of the update of the next slot when the generator yields u
\* for the interaction test, r for the branch and sr for the scatter target
OutcomeFor(u, r, sr) ==
    NeutronUpdate(neutrons, fission_events, upd, timestep, simulation_time,
                  [u |-> u, r |-> r, scatter_r |-> sr, split |-> sr,
                   dir |-> CHOOSE v \in Dirs : TRUE,
                   children |-> [j \in 1..3 |-> CHOOSE v \in Dirs : TRUE]]).outcome

\* C24: when an interaction occurs with second draw r, exactly one outcome is
\* taken: scatter iff r < 1 - absorption - fission, absorb iff
\* 1 - absorption - fission <= r < 1 - fission, fission iff r >= 1 - fission;
\* with fission_probability = 0 no fission event is ever recorded and no slot
\* is ever reinitialised by initFromFission.
C24_OutcomePartition ==
    /\ upd >= 1 /\ neutrons[upd].active
          /\ neutrons[upd].lifetime + timestep <= max_lifetime =>
          \A u \in {x \in Draws : x < InteractionProb(neutrons[upd].energy_group, timestep)} :
             \A r \in Draws : \A sr \in Draws :
                LET o  == OutcomeFor(u, r, sr)
                    t1 == 1000 - absorption_probability - fission_probability
                    t2 == 1000 - fission_probability
                IN /\ o \in {"scatter", "absorb", "fission"}
                   /\ (o = "scatter") = (r < t1)
                   /\ (o = "absorb")  = (t1 <= r /\ r < t2)
                   /\ (o = "fission") = (r >= t2)
    /\ fission_probability = 0 =>
          /\ fission_events = <<>>
          /\ last.outcome # "fission"
          /\ \A j \in 1..Len(neutrons) : cause[j] # "fission"

\* reached: with fission_probability = 0 the draw r = 0.9 has absorbed a
\* neutron (it would have fissioned one at fission_probability = 0.15)
C24_Witness ==
    /\ fission_probability = 0
    /\ last.outcome = "absorb"
    /\ cause[last.slot] = "absorbed"

\* the slots NeutronSimulation::update() hands to Neutron::init() before the
\* per-neutron loop starts
RespawnedSlots == {j \in 1..Len(neutrons) : ~neutrons[j].active /\ neutrons'[j].active}

\* C25 as stated: in an update() call whose new time t has fmod(t, 10) <
\* timestep exactly min(num_neutrons / 10, number of inactive slots) slots are
\* reinitialised from the source before any neutron is advanced; in every
\* other update() call none is.
C25_RespawnCount ==
    [][simulation_time' = simulation_time + timestep =>
          LET inactive == Cardinality(InactiveSlots(neutrons))
              want == IF (simulation_time' % RESPAWN_PERIOD) < timestep
                      THEN Min(num_neutrons \div 10, inactive) ELSE 0
          IN /\ Cardinality(RespawnedSlots) = want
             /\ \A j \in RespawnedSlots :
                   /\ neutrons'[j].lifetime = 0
                   /\ neutrons'[j].energy_group = 0]_vars

\* C26: after every NeutronSimulation::update() call each active neutron has
\* lifetime <= max_lifetime, lies within max_distance of the origin and has
\* an energy group in {0, 1, 2}.
C26_ActiveInBounds ==
    upd = 0 /\ simulation_time > 0 =>
        \A j \in 1..Len(neutrons) :
            neutrons[j].active =>
                /\ neutrons[j].lifetime <= max_lifetime
                /\ Dist2(neutrons[j].position) <= max_distance * max_distance
                /\ neutrons[j].energy_group \in 0..(NUM_ENERGY_GROUPS - 1)

\* reached: an update() call has returned with one neutron that left the
\* sphere deactivated and another, away from the source, still active
C26_Witness ==
    /\ upd = 0 /\ simulation_time > 0
    /\ \E j \in 1..Len(neutrons) : ~neutrons[j].active /\ cause[j] = "escaped"
    /\ \E j \in 1..Len(neutrons) :
          /\ neutrons[j].active
          /\ neutrons[j].lifetime > 0
          /\ Dist2(neutrons[j].position) > source_radius * source_radius

\* slot j holds a child of a fission of the current update() call: it is
\* active with lifetime 0 at the position of an event recorded at this time
FissionChild(j) ==
    /\ neutrons[j].active /\ neutrons[j].lifetime = 0
    /\ \E e \in 1..Len(fission_events) :
          /\ fission_events[e].time = simulation_time
          /\ fission_events[e].position = neutrons[j].position

\* C27 as stated: a slot reinitialised by a fission during an update() call
\* is not advanced in that same call, whatever its index: the per-neutron
\* loop leaves it with lifetime 0 at the fission position.
C27_ChildNotAdvanced ==
    [][upd >= 1 /\ last'.slot = upd /\ FissionChild(upd) =>
          neutrons'[upd] = neutrons[upd]]_vars

\* every cell written or read by a write of generateTerrain() has both
\* indices in [0, 2^n]
AccessesInsideGrid ==
    \A n \in 1..MaxN :
        \A k \in 1..Len(TerrainOpsTable[n]) :
           LET op == TerrainOpsTable[n][k]
           IN \A c \in {op.cell} \cup {op.reads[r] : r \in 1..Len(op.reads)} :
                 c[1] \in 0..Pow2(n) /\ c[2] \in 0..Pow2(n)

\* C28: every array access of generateTerrain() uses indices in [0, 2^n],
\* and every cell read by a diamond-step or square-step average (or
\* perturbed in place) has received its structural assignment before.
C28_ReadsInsideAndAssigned ==
    /\ AccessesInsideGrid
    /\ \A i \in 1..Len(terrains) :
          /\ terrains[i].trace.oob = {}
          /\ terrains[i].trace.unset = {}

\* reached: a 5 x 5 grid whose second stage has averaged the centre (1, 1)
\* from cells of the first stage and the edge midpoint (1, 2) from it
C28_Witness ==
    \E i \in 1..Len(terrains) :
        /\ terrains[i].n = 2
        /\ \E k \in 1..Len(TerrainOpsTable[2]) :
              /\ TerrainOpsTable[2][k].kind = "avg"
              /\ TerrainOpsTable[2][k].cell = <<1, 2>>
              /\ TerrainOpsTable[2][k].reads = << <<1, 3>>, <<1, 1>>, <<2, 2>>, <<0, 2>> >>
        /\ {<<1, 1>>, <<1, 2>>} \subseteq terrains[i].trace.assigned
        /\ terrains[i].grid[<<1, 2>>] # 0

\* C29: generateTerrain() is idempotent on one object: a further call, with
\* the grid still holding the previous result, leaves the grid (and the
\* draws consumed for it) equal to those after the first call.
C29_Idempotent ==
    [][regens' = regens + 1 =>
          /\ Len(terrains') = Len(terrains)
          /\ \A i \in 1..Len(terrains) :
                /\ terrains'[i].grid = terrains[i].grid
                /\ terrains'[i].trace.log = terrains[i].trace.log]_vars

\* reached: generateTerrain() has been called again on an object whose
\* 3 x 3 grid held non-zero heights at the corner and at the centre
C29_Witness ==
    /\ regens = 1
    /\ \A i \in 1..Len(terrains) :
          /\ terrains[i].n = 1
          /\ terrains[i].grid[<<0, 0>>] # 0
          /\ terrains[i].grid[<<1, 1>>] # 0

\* C30 as stated: for a viewer in dynamic mode on which only the play button
\* was used, animationActive is false while the page is hidden, and when the
\* page becomes visible again it has the value it had immediately before the
\* page was hidden.
C30_VisibilityRestores ==
    [][viewer.dynamicMode /\ viewer.clicksOnly /\ hidden' # hidden =>
          /\ hidden' => viewer'.animationActive = "false"
          /\ ~hidden' => viewer'.animationActive = viewer.beforeHidden]_vars
====
